---------------------------- MODULE Spec2Model ----------------------------
(***************************************************************************)
(* Model of the invoice sorter / extractor of rechnungen_sort.             *)
(*                                                                         *)
(* A Python str is modelled as a sequence of one-character strings, so     *)
(* that replace, upper, strip, "in" and the regular expressions of the     *)
(* source are computed character by character.  Characters outside ASCII   *)
(* are written by their code point ("U+00A0" is the non-breaking space).   *)
(* A float is modelled by the decimal it was read from:                    *)
(* <<"float", n, k>> stands for n / 10^k with trailing zeros of the        *)
(* fraction removed (for the short literals of the model two literals      *)
(* give the same double iff they give the same decimal).                   *)
(***************************************************************************)
EXTENDS Integers, Sequences, FiniteSets, TLC

VARIABLES
    pc,         \* position of the running call or script
    call,       \* the function under evaluation (pure-function calls)
    arg,        \* its argument
    ret,        \* its return value
    pdf_files,  \* sort_all.main: the sorted PDFs found in the inbox
    idx,        \* sort_all.main: index of the PDF the for loop is at
    text,       \* sort_all.main: extracted text of the current PDF
    consulted,  \* sort_all.main: providers whose matches() was called for it
    matched_provider, \* sort_all.main: the provider found for the current PDF
    moved,      \* sort_all.main: counter of moved PDFs
    unmatched,  \* sort_all.main: list of PDFs left in the inbox
    location,   \* file system: the directory each PDF lies in
    dirs        \* file system: the target directories that exist

vars == <<pc, call, arg, ret, pdf_files, idx, text, consulted,
          matched_provider, moved, unmatched, location, dirs>>

sortVars == <<pdf_files, idx, text, consulted, matched_provider, moved,
              unmatched, location, dirs>>

callVars == <<call, arg, ret>>

-----------------------------------------------------------------------------
(* Python values *)

None == <<"None">>

\* the exception float() raises on a string that is no numeric literal
ValueError == <<"ValueError">>

NBSP == "U+00A0"

Digits == {"0", "1", "2", "3", "4", "5", "6", "7", "8", "9"}

\* str.isspace() characters of the model's alphabets
Whitespace == {" ", NBSP, "\n", "\t"}

DigitVal(c) ==
    CASE c = "0" -> 0 [] c = "1" -> 1 [] c = "2" -> 2 [] c = "3" -> 3
      [] c = "4" -> 4 [] c = "5" -> 5 [] c = "6" -> 6 [] c = "7" -> 7
      [] c = "8" -> 8 [] c = "9" -> 9

DigitChar(d) == <<"0", "1", "2", "3", "4", "5", "6", "7", "8", "9">>[d + 1]

\* int(s) of a string of decimal digits
RECURSIVE int(_)
int(s) ==
    IF s = <<>> THEN 0
    ELSE 10 * int(SubSeq(s, 1, Len(s) - 1)) + DigitVal(s[Len(s)])

\* str(n) of a natural number
RECURSIVE str(_)
str(n) ==
    IF n < 10 THEN <<DigitChar(n)>>
    ELSE str(n \div 10) \o <<DigitChar(n % 10)>>

\* f"{n:02d}" of a natural number
fmt02d(n) == IF n < 10 THEN <<"0">> \o str(n) ELSE str(n)

\* s.replace(old, new) for a one-character old: every occurrence is
\* replaced (the string is worked on in halves)
RECURSIVE replace(_, _, _)
replace(s, old, new) ==
    IF s = <<>> THEN <<>>
    ELSE IF Len(s) = 1 THEN (IF s[1] = old THEN new ELSE s)
    ELSE replace(SubSeq(s, 1, Len(s) \div 2), old, new)
         \o replace(SubSeq(s, Len(s) \div 2 + 1, Len(s)), old, new)

\* c in s, for a one-character c
contains(s, c) == \E i \in DOMAIN s : s[i] = c

\* s.strip()
RECURSIVE lstrip(_)
lstrip(s) ==
    IF s # <<>> /\ Head(s) \in Whitespace THEN lstrip(Tail(s)) ELSE s

RECURSIVE rstrip(_)
rstrip(s) ==
    IF s # <<>> /\ s[Len(s)] \in Whitespace
    THEN rstrip(SubSeq(s, 1, Len(s) - 1)) ELSE s

strip(s) == lstrip(rstrip(s))

\* k in t, for strings k and t
IsSubstring(k, t) ==
    \E i \in 1 .. (Len(t) - Len(k) + 1) : SubSeq(t, i, i + Len(k) - 1) = k

-----------------------------------------------------------------------------
(* Letter case *)

LowerLetters ==
    <<"a", "b", "c", "d", "e", "f", "g", "h", "i", "j", "k", "l", "m",
      "n", "o", "p", "q", "r", "s", "t", "u", "v", "w", "x", "y", "z",
      "U+00E4", "U+00F6", "U+00FC">>

UpperLetters ==
    <<"A", "B", "C", "D", "E", "F", "G", "H", "I", "J", "K", "L", "M",
      "N", "O", "P", "Q", "R", "S", "T", "U", "V", "W", "X", "Y", "Z",
      "U+00C4", "U+00D6", "U+00DC">>

ToUpper ==
    [c \in {LowerLetters[i] : i \in DOMAIN LowerLetters} |->
        UpperLetters[CHOOSE i \in DOMAIN LowerLetters : LowerLetters[i] = c]]

ToLower ==
    [c \in {UpperLetters[i] : i \in DOMAIN UpperLetters} |->
        LowerLetters[CHOOSE i \in DOMAIN UpperLetters : UpperLetters[i] = c]]

\* s.upper()
upper(s) ==
    [i \in DOMAIN s |-> IF s[i] \in DOMAIN ToUpper THEN ToUpper[s[i]] ELSE s[i]]

\* s.lower()
lower(s) ==
    [i \in DOMAIN s |-> IF s[i] \in DOMAIN ToLower THEN ToLower[s[i]] ELSE s[i]]

-----------------------------------------------------------------------------
(* float(): the decimal a numeric literal denotes *)

RECURSIVE Pow10(_)
Pow10(k) == IF k = 0 THEN 1 ELSE 10 * Pow10(k - 1)

\* n / 10^k without trailing zeros in the fraction
RECURSIVE Float(_, _)
Float(n, k) ==
    IF k > 0 /\ n % 10 = 0 THEN Float(n \div 10, k - 1)
    ELSE <<"float", n, k>>

\* float("inf"), float("-inf") and float("nan")
FInf == <<"inf">>

FNegInf == <<"-inf">>

FNaN == <<"nan">>

IsFloat(v) == (Len(v) = 3 /\ v[1] = "float") \/ v \in {FInf, FNegInf, FNaN}

\* -v
Neg(v) == Float(0 - v[2], v[3])

\* the length of the longest prefix of s made of digits
RECURSIVE DigitRun(_)
DigitRun(s) ==
    IF s # <<>> /\ Head(s) \in Digits THEN 1 + DigitRun(Tail(s)) ELSE 0

\* float(s): whitespace around the literal is skipped, then
\* [sign] digits [. [digits]] | [sign] . digits is read left to right;
\* anything left over raises ValueError. The words inf, infinity and nan,
\* in any case and with a sign, denote the infinities and not-a-number.
FloatOfFraction(sgn, u, ni, w, nf) ==
    IF lower(u) \in { <<"i", "n", "f">>,
                      <<"i", "n", "f", "i", "n", "i", "t", "y">> }
    THEN IF sgn < 0 THEN FNegInf ELSE FInf
    ELSE IF lower(u) = <<"n", "a", "n">> THEN FNaN
    ELSE IF ni + nf = 0 \/ SubSeq(w, nf + 1, Len(w)) # <<>> THEN ValueError
    ELSE Float(sgn * int(SubSeq(u, 1, ni) \o SubSeq(w, 1, nf)), nf)

FloatOfPoint(sgn, u, ni, v) ==
    IF v # <<>> /\ v[1] = "."
    THEN FloatOfFraction(sgn, u, ni, Tail(v), DigitRun(Tail(v)))
    ELSE FloatOfFraction(sgn, u, ni, v, 0)

FloatOfRun(sgn, u, ni) == FloatOfPoint(sgn, u, ni, SubSeq(u, ni + 1, Len(u)))

FloatOfSigned(t) ==
    FloatOfRun(IF t # <<>> /\ t[1] = "-" THEN 0 - 1 ELSE 1,
               IF t # <<>> /\ t[1] \in {"+", "-"} THEN Tail(t) ELSE t,
               DigitRun(IF t # <<>> /\ t[1] \in {"+", "-"} THEN Tail(t) ELSE t))

float(s) == FloatOfSigned(strip(s))

-----------------------------------------------------------------------------
(* Amount normalisation *)

\* providers/swisscard_provider.py normalize_amount, with the body of the
\* try block evaluated without the except clause
swisscard_normalize_amount_try(amount_str) ==
    LET s0 == replace(replace(amount_str, "'", <<>>), " ", <<>>)
        s1 == IF contains(s0, ",") /\ contains(s0, ".")
              THEN replace(replace(s0, ".", <<>>), ",", <<".">>)
              ELSE IF contains(s0, ",")
                   THEN replace(s0, ",", <<".">>)
                   ELSE s0
    IN  float(s1)

\* the same body when the branch on "," and "." is lost
swisscard_normalize_amount_nocomma(amount_str) ==
    LET r == float(replace(replace(amount_str, "'", <<>>), " ", <<>>))
    IN  IF r = ValueError THEN None ELSE r

\* providers/swisscard_provider.py normalize_amount
swisscard_normalize_amount(amount_str) ==
    LET r == swisscard_normalize_amount_try(amount_str)
    IN  IF r = ValueError THEN None ELSE r

\* providers/szkb_provider.py normalize_amount when the except clause is lost
szkb_normalize_amount_noexcept(amount_str) ==
    LET s0 == replace(replace(amount_str, "'", <<>>), " ", <<>>)
        s1 == IF contains(s0, ",") /\ contains(s0, ".")
              THEN replace(replace(s0, ".", <<>>), ",", <<".">>)
              ELSE IF contains(s0, ",")
                   THEN replace(s0, ",", <<".">>)
                   ELSE s0
    IN  float(s1)

\* providers/szkb_provider.py normalize_amount when the sign is dropped
szkb_normalize_amount_abs(amount_str) ==
    LET r == szkb_normalize_amount_noexcept(amount_str)
    IN  IF r = ValueError THEN None
        ELSE IF r[2] < 0 THEN Neg(r) ELSE r

\* providers/szkb_provider.py normalize_amount
szkb_normalize_amount(amount_str) ==
    LET s0 == replace(replace(amount_str, "'", <<>>), " ", <<>>)
        s1 == IF contains(s0, ",") /\ contains(s0, ".")
              THEN replace(replace(s0, ".", <<>>), ",", <<".">>)
              ELSE IF contains(s0, ",")
                   THEN replace(s0, ",", <<".">>)
                   ELSE s0
        r  == float(s1)
    IN  IF r = ValueError THEN None ELSE r

\* providers/swisscom_provider.py normalize_amount_for_number
normalize_amount_for_number(amount_str) ==
    LET s0 == replace(replace(amount_str, "'", <<>>), " ", <<>>)
        s1 == IF contains(s0, ",") /\ contains(s0, ".")
              THEN replace(replace(s0, ".", <<>>), ",", <<".">>)
              ELSE IF contains(s0, ",")
                   THEN replace(s0, ",", <<".">>)
                   ELSE s0
        r  == float(s1)
    IN  IF r = ValueError THEN None ELSE r

\* num with an except branch that hands the failure on as nan
num_unparseable_nan(x) ==
    LET s0 == strip(x)
        s1 == replace(replace(replace(s0, "'", <<>>), " ", <<>>), NBSP, <<>>)
        s2 == replace(s1, ",", <<".">>)
        r  == float(s2)
    IN  IF x = None \/ x = FNaN THEN Float(0, 0)
        ELSE IF s0 = <<>> \/ lower(s0) = <<"n", "o", "n", "e">>
        THEN Float(0, 0)
        ELSE IF r = ValueError THEN FNaN ELSE r

\* strom_table_verify.py num, for a str argument, None or the float nan
num(x) ==
    LET s0 == strip(x)
        s1 == replace(replace(replace(s0, "'", <<>>), " ", <<>>), NBSP, <<>>)
        s2 == replace(s1, ",", <<".">>)
        r  == CHOOSE f \in {float(c) : c \in {s2}} : TRUE
    IN  IF x = None \/ x = FNaN THEN Float(0, 0)
        ELSE IF s0 = <<>> \/ lower(s0) = <<"n", "o", "n", "e">>
        THEN Float(0, 0)
        ELSE IF r = ValueError THEN Float(0, 0) ELSE r

-----------------------------------------------------------------------------
(* The idle state of the parts a specification does not run *)

SortIdle ==
    /\ pdf_files = <<>>
    /\ idx = 0
    /\ text = <<>>
    /\ consulted = <<>>
    /\ matched_provider = "None"
    /\ moved = 0
    /\ unmatched = <<>>
    /\ location = <<>>
    /\ dirs = {}

\* all strings over the alphabet A of length at most n
StringsUpTo(A, n) == UNION {[1 .. k -> A] : k \in 0 .. n}

-----------------------------------------------------------------------------
(* Calls of the amount normalisers *)

MaxAmountLen == 4

AmountChars == {"1", "5", "'", " ", NBSP, ",", ".", "-", "+", "x"}

\* the amounts the docstrings and the specification name
AmountExamples ==
    { <<"1", "'", "2", "3", "4", ".", "5", "0">>,
      <<"1", "2", "3", "4", ",", "5", "0">>,
      <<"1", ".", "2", "3", "4", ",", "5", "0">>,
      <<"1", " ", "2", "3", "4", ",", "5", "0">>,
      <<"-", " ", "1", "'", "2", "3", "4", ",", "5", "0">>,
      <<"1", NBSP, "2", "3", "4", ".", "5", "0">>,
      <<"N", "o", "n", "e">> }

AmountInputs == StringsUpTo(AmountChars, MaxAmountLen) \cup AmountExamples

InitAmount ==
    /\ pc = "call"
    /\ call = "-"
    /\ arg \in AmountInputs
    /\ ret = None
    /\ SortIdle

Call_swisscard_normalize_amount ==
    /\ pc = "call"
    /\ call' = "swisscard_normalize_amount"
    /\ ret' = swisscard_normalize_amount(arg)
    /\ pc' = "returned"
    /\ UNCHANGED <<arg, sortVars>>

Call_szkb_normalize_amount ==
    /\ pc = "call"
    /\ call' = "szkb_normalize_amount"
    /\ ret' = szkb_normalize_amount(arg)
    /\ pc' = "returned"
    /\ UNCHANGED <<arg, sortVars>>

Call_normalize_amount_for_number ==
    /\ pc = "call"
    /\ call' = "normalize_amount_for_number"
    /\ ret' = normalize_amount_for_number(arg)
    /\ pc' = "returned"
    /\ UNCHANGED <<arg, sortVars>>

Call_num ==
    /\ pc = "call"
    /\ call' = "num"
    /\ ret' = num(arg)
    /\ pc' = "returned"
    /\ UNCHANGED <<arg, sortVars>>

NextAmount ==
    \/ Call_swisscard_normalize_amount
    \/ Call_szkb_normalize_amount
    \/ Call_normalize_amount_for_number
    \/ Call_num

SpecAmount == InitAmount /\ [][NextAmount]_vars

-----------------------------------------------------------------------------
(* Reference reading of an amount, as the claims word it *)

\* s with every character of the set D deleted
Without(s, D) == SelectSeq(s, LAMBDA c : c \notin D)

\* s with every comma turned into a decimal point
CommaToPoint(s) == [i \in DOMAIN s |-> IF s[i] = "," THEN "." ELSE s[i]]

\* what remains after separator and comma handling
RefResidue(s) ==
    LET t == Without(s, {"'", " "})
    IN  IF (\E i \in DOMAIN t : t[i] = ",") /\ (\E i \in DOMAIN t : t[i] = ".")
        THEN CommaToPoint(Without(t, {"."}))
        ELSE CommaToPoint(t)

\* the literal without surrounding whitespace and without its sign
Unsigned(t) ==
    LET b == strip(t)
    IN  IF b # <<>> /\ b[1] \in {"+", "-"} THEN SubSeq(b, 2, Len(b)) ELSE b

\* a decimal literal: digits with at most one decimal point, at least one digit
IsNumericLiteral(t) ==
    LET b == Unsigned(t)
    IN  /\ \A i \in DOMAIN b : b[i] \in Digits \cup {"."}
        /\ Cardinality({i \in DOMAIN b : b[i] = "."}) <= 1
        /\ \E i \in DOMAIN b : b[i] \in Digits

\* the sum of d[i] * 10^(Len(d) - i), from the most significant digit on
RECURSIVE DigitSum(_)
DigitSum(d) ==
    IF d = <<>> THEN 0
    ELSE DigitVal(Head(d)) * Pow10(Len(d) - 1) + DigitSum(Tail(d))

\* the decimal number a numeric literal denotes
RefValue(t) ==
    LET b    == Unsigned(t)
        dots == {i \in DOMAIN b : b[i] = "."}
        k    == IF dots = {} THEN 0 ELSE Len(b) - (CHOOSE i \in dots : TRUE)
        m    == DigitSum(Without(b, {"."}))
        st   == strip(t)
    IN  Float(IF st[1] = "-" THEN 0 - m ELSE m, k)

RefAmount(s) ==
    IF IsNumericLiteral(RefResidue(s)) THEN RefValue(RefResidue(s)) ELSE None

\* C4: swisscard's normalize_amount agrees with the reference reading on
\* every amount string (apostrophes and spaces removed; with a comma and a
\* dot, dots deleted and the comma the decimal point; with a comma alone,
\* the comma the decimal point), and "1'234.50", "1234,50" and "1.234,50"
\* all give 1234.50.
C4_NormalizeAmountReference ==
    (pc = "returned" /\ call = "swisscard_normalize_amount") =>
        /\ ret = RefAmount(arg)
        /\ arg \in { <<"1", "'", "2", "3", "4", ".", "5", "0">>,
                     <<"1", "2", "3", "4", ",", "5", "0">>,
                     <<"1", ".", "2", "3", "4", ",", "5", "0">> }
              => ret = <<"float", 12345, 1>>

C4_Witness ==
    /\ pc = "returned"
    /\ call = "swisscard_normalize_amount"
    /\ arg = <<"1", ".", "2", "3", "4", ",", "5", "0">>
    /\ ret = <<"float", 12345, 1>>

\* a non-breaking space stands between two digits, and nowhere else
NbspGroups(s) ==
    /\ \E i \in DOMAIN s : s[i] = NBSP
    /\ \A i \in DOMAIN s : s[i] = NBSP =>
          /\ i > 1 /\ s[i - 1] \in Digits
          /\ i < Len(s) /\ s[i + 1] \in Digits

\* C5: on an amount whose digit groups are separated by a non-breaking
\* space the providers' normalisers return the same number as with an
\* apostrophe or a regular space in that position, not a failure.
C5_NbspStripped ==
    (/\ pc = "returned"
     /\ call \in {"szkb_normalize_amount", "normalize_amount_for_number"}
     /\ NbspGroups(arg)) =>
        /\ ret = RefAmount(replace(arg, NBSP, <<"'">>))
        /\ ret = RefAmount(replace(arg, NBSP, <<" ">>))

-----------------------------------------------------------------------------
(* Date normalisation *)

AllDigits(s) == \A i \in DOMAIN s : s[i] \in Digits

\* re.match(r"(\d{2})\.(\d{2})\.(\d{2}|\d{4})$", s) on a stripped string
MatchDdMmYy(s) ==
    /\ Len(s) \in {8, 10}
    /\ AllDigits(SubSeq(s, 1, 2))
    /\ s[3] = "."
    /\ AllDigits(SubSeq(s, 4, 5))
    /\ s[6] = "."
    /\ AllDigits(SubSeq(s, 7, Len(s)))

\* old/v0/scan_move_strom.py normalize_date_ddmmyy with every two-digit
\* year put into the 2000s
strom_normalize_date_ddmmyy_nopivot(date_str) ==
    LET s == strip(date_str)
        y == SubSeq(s, 7, Len(s))
    IN  IF ~MatchDdMmYy(s) THEN s
        ELSE SubSeq(s, 1, 6)
             \o str(IF Len(y) = 2 THEN 2000 + int(y) ELSE int(y))

\* old/v0/scan_move_strom.py normalize_date_ddmmyy
strom_normalize_date_ddmmyy(date_str) ==
    LET s    == strip(date_str)
        d    == SubSeq(s, 1, 2)
        mth  == SubSeq(s, 4, 5)
        y    == SubSeq(s, 7, Len(s))
        yy   == int(y)
        year == IF Len(y) = 2
                THEN (IF yy <= 79 THEN 2000 + yy ELSE 1900 + yy)
                ELSE int(y)
    IN  IF ~MatchDdMmYy(s) THEN s
        ELSE d \o <<".">> \o mth \o <<".">> \o str(year)

\* old/v0/konto_filter_by_keyword.py normalize_date_ddmmyy
konto_normalize_date_ddmmyy(date_str) ==
    LET s    == strip(date_str)
        d    == int(SubSeq(s, 1, 2))
        mth  == int(SubSeq(s, 4, 5))
        y    == SubSeq(s, 7, Len(s))
        year == IF Len(y) = 2 THEN 2000 + int(y) ELSE int(y)
    IN  IF ~MatchDdMmYy(s) THEN date_str
        ELSE fmt02d(d) \o <<".">> \o fmt02d(mth) \o <<".">> \o str(year)

\* the two-digit strings 00 .. 99
TwoDigit == {fmt02d(n) : n \in 0 .. 99}

DayInputs == {<<"0", "1">>, <<"1", "5">>, <<"3", "1">>}

MonthInputs == {<<"0", "7">>, <<"1", "2">>}

YearInputs ==
    TwoDigit \cup { <<"2", "0", "2", "5">>, <<"1", "9", "7", "9">>,
                    <<"0", "0", "2", "5">>, <<"0", "9", "9", "9">>,
                    <<"2", "0", "2">>, <<"2", "0", "2", "5", "1">> }

DatePads == {<<>>, <<" ">>, <<"\n">>, <<"x">>}

DateInputs ==
    { lead \o d \o <<".">> \o m \o <<".">> \o y \o trail :
        lead \in {<<>>, <<" ">>}, d \in DayInputs, m \in MonthInputs,
        y \in YearInputs, trail \in DatePads }
    \cup { <<>>, <<" ">>, <<"a", "b", "c">>, <<" ", "a", "b", "c", " ">>,
           <<"1", ".", "7", ".", "2", "5">>,
           <<"0", "1", "-", "0", "7", "-", "2", "5">> }

InitDate ==
    /\ pc = "call"
    /\ call = "-"
    /\ arg \in DateInputs
    /\ ret = None
    /\ SortIdle

Call_strom_normalize_date_ddmmyy ==
    /\ pc = "call"
    /\ call' = "strom_normalize_date_ddmmyy"
    /\ ret' = strom_normalize_date_ddmmyy(arg)
    /\ pc' = "returned"
    /\ UNCHANGED <<arg, sortVars>>

Call_konto_normalize_date_ddmmyy ==
    /\ pc = "call"
    /\ call' = "konto_normalize_date_ddmmyy"
    /\ ret' = konto_normalize_date_ddmmyy(arg)
    /\ pc' = "returned"
    /\ UNCHANGED <<arg, sortVars>>

NextDate ==
    \/ Call_strom_normalize_date_ddmmyy
    \/ Call_konto_normalize_date_ddmmyy

SpecDate == InitDate /\ [][NextDate]_vars

\* the function the returned call evaluated, applied to s
SameNormalizeDate(s) ==
    IF call = "strom_normalize_date_ddmmyy"
    THEN strom_normalize_date_ddmmyy(s)
    ELSE konto_normalize_date_ddmmyy(s)

\* DD.MM.YY or DD.MM.YYYY, with nothing around it
IsDdMmYy(s) ==
    /\ Len(s) \in {8, 10}
    /\ \A i \in DOMAIN s : IF i \in {3, 6} THEN s[i] = "." ELSE s[i] \in Digits

\* C8: normalize_date never fails and is idempotent: "01.07.25" gives
\* "01.07.2025", a canonical DD.MM.YYYY input and a text of neither shape
\* are returned unchanged, hence normalising the result again changes
\* nothing, at both call sites.
C8_NormalizeDateIdempotent ==
    pc = "returned" =>
        /\ arg = <<"0", "1", ".", "0", "7", ".", "2", "5">>
              => ret = <<"0", "1", ".", "0", "7", ".", "2", "0", "2", "5">>
        /\ (IsDdMmYy(arg) /\ Len(arg) = 10) => ret = arg
        /\ ~IsDdMmYy(strip(arg)) => ret = arg
        /\ SameNormalizeDate(ret) = ret

\* The clauses of C8 about dates on their own: a canonical DD.MM.YYYY input
\* is returned unchanged and normalising twice is normalising once.  (Both
\* fail for a year written with leading zeros.)
C8_CanonicalUnchanged ==
    pc = "returned" =>
        /\ (IsDdMmYy(arg) /\ Len(arg) = 10) => ret = arg
        /\ SameNormalizeDate(ret) = ret

\* The pass-through clause of C8 on its own: a text of neither shape is
\* returned unchanged.  (scan_move_strom returns it stripped.)
C8_PassThroughUnchanged ==
    (pc = "returned" /\ ~IsDdMmYy(strip(arg))) => ret = arg

\* the year digits of a returned date
YearOf(s) == SubSeq(s, 7, Len(s))

\* C9 as claimed: the statement scanner (konto_filter_by_keyword) maps
\* yy <= 79 to 19yy and yy > 79 to 20yy, the utility-invoice scanner
\* (scan_move_strom) maps every yy to 20yy.
C9_PivotAsClaimed ==
    (pc = "returned" /\ IsDdMmYy(arg) /\ Len(arg) = 8) =>
        LET yy == int(YearOf(arg))
        IN  IF call = "konto_normalize_date_ddmmyy"
            THEN YearOf(ret) = str(IF yy <= 79 THEN 1900 + yy ELSE 2000 + yy)
            ELSE YearOf(ret) = str(2000 + yy)

\* C9 as coded: the two call sites expand a two-digit year differently:
\* the utility-invoice scanner (scan_move_strom) maps yy <= 79 to 20yy and
\* yy > 79 to 19yy, the statement scanner (konto_filter_by_keyword) maps
\* every yy in 00..99 to 20yy.
C9_PivotAsCoded ==
    (pc = "returned" /\ IsDdMmYy(arg) /\ Len(arg) = 8) =>
        LET yy == int(YearOf(arg))
        IN  /\ Len(ret) = 10
            /\ SubSeq(ret, 1, 6) = SubSeq(arg, 1, 6)
            /\ IF call = "strom_normalize_date_ddmmyy"
               THEN int(YearOf(ret)) = (IF yy <= 79 THEN 2000 + yy ELSE 1900 + yy)
               ELSE int(YearOf(ret)) = 2000 + yy

C9_Witness ==
    /\ pc = "returned"
    /\ call = "strom_normalize_date_ddmmyy"
    /\ arg = <<"0", "1", ".", "0", "7", ".", "8", "0">>
    /\ ret = <<"0", "1", ".", "0", "7", ".", "1", "9", "8", "0">>
    /\ konto_normalize_date_ddmmyy(arg)
          = <<"0", "1", ".", "0", "7", ".", "2", "0", "8", "0">>

-----------------------------------------------------------------------------
(* Spelled-out dates (providers/swisscom_provider.py) *)

AUML == "U+00C4"

OUML == "U+00D6"

UUML == "U+00DC"

\* MONTHS
MONTHS ==
    { << <<"J", "A", "N", "U", "A", "R">>, 1 >>,
      << <<"F", "E", "B", "R", "U", "A", "R">>, 2 >>,
      << <<"M", "A", "E", "R", "Z">>, 3 >>,
      << <<"M", AUML, "R", "Z">>, 3 >>,
      << <<"A", "P", "R", "I", "L">>, 4 >>,
      << <<"M", "A", "I">>, 5 >>,
      << <<"J", "U", "N", "I">>, 6 >>,
      << <<"J", "U", "L", "I">>, 7 >>,
      << <<"A", "U", "G", "U", "S", "T">>, 8 >>,
      << <<"S", "E", "P", "T", "E", "M", "B", "E", "R">>, 9 >>,
      << <<"O", "K", "T", "O", "B", "E", "R">>, 10 >>,
      << <<"N", "O", "V", "E", "M", "B", "E", "R">>, 11 >>,
      << <<"D", "E", "Z", "E", "M", "B", "E", "R">>, 12 >>}

\* MONTHS.get(name); 0 stands for the None of a missing key (both are
\* false in "if not month")
MONTHS_get(name) ==
    IF \E e \in MONTHS : e[1] = name
    THEN (CHOOSE e \in MONTHS : e[1] = name)[2]
    ELSE 0

\* the character class [A-Za-zÄÖÜäöü]
MonthLetters ==
    {LowerLetters[i] : i \in DOMAIN LowerLetters}
    \cup {UpperLetters[i] : i \in DOMAIN UpperLetters}

\* the length of the longest prefix of s made of characters of the set C
RECURSIVE Run(_, _)
Run(s, C) == IF s # <<>> /\ Head(s) \in C THEN 1 + Run(Tail(s), C) ELSE 0

Drop(s, n) == SubSeq(s, n + 1, Len(s))

\* re.match(r"\s*(\d{1,2})\.\s+([A-Za-zÄÖÜäöü]+)\s+(\d{4})\s*$", s):
\* the groups <<day, month name, year>>, or None
MatchGermanDate(s) ==
    LET s1 == Drop(s, Run(s, Whitespace))
        nd == IF Run(s1, Digits) >= 2 THEN 2 ELSE Run(s1, Digits)
        s2 == Drop(s1, nd)
        s3 == Drop(s2, 1)
        w1 == Run(s3, Whitespace)
        s4 == Drop(s3, w1)
        nl == Run(s4, MonthLetters)
        s5 == Drop(s4, nl)
        w2 == Run(s5, Whitespace)
        s6 == Drop(s5, w2)
        s7 == Drop(s6, 4)
    IN  IF /\ nd >= 1
           /\ s2 # <<>> /\ s2[1] = "."
           /\ w1 >= 1
           /\ nl >= 1
           /\ w2 >= 1
           /\ Len(s6) >= 4 /\ AllDigits(SubSeq(s6, 1, 4))
           /\ Run(s7, Whitespace) = Len(s7)
        THEN <<SubSeq(s1, 1, nd), SubSeq(s4, 1, nl), SubSeq(s6, 1, 4)>>
        ELSE None

\* parse_german_date
parse_german_date(date_str) ==
    LET m          == MatchGermanDate(date_str)
        day        == int(m[1])
        month_name == replace(replace(replace(upper(m[2]),
                          AUML, <<"A", "E">>), OUML, <<"O", "E">>),
                          UUML, <<"U", "E">>)
        year       == int(m[3])
        month      == MONTHS_get(month_name)
    IN  IF m = None THEN None
        ELSE IF month = 0 THEN None
        ELSE fmt02d(day) \o <<".">> \o fmt02d(month) \o <<".">> \o str(year)

\* month names as an invoice may spell them, in lower case
MonthSpellings ==
    { <<"j", "a", "n", "u", "a", "r">>, <<"f", "e", "b", "r", "u", "a", "r">>,
      <<"m", "U+00E4", "r", "z">>, <<"m", "a", "e", "r", "z">>,
      <<"a", "p", "r", "i", "l">>, <<"m", "a", "i">>, <<"j", "u", "n", "i">>,
      <<"j", "u", "l", "i">>, <<"a", "u", "g", "u", "s", "t">>,
      <<"s", "e", "p", "t", "e", "m", "b", "e", "r">>,
      <<"o", "k", "t", "o", "b", "e", "r">>,
      <<"n", "o", "v", "e", "m", "b", "e", "r">>,
      <<"d", "e", "z", "e", "m", "b", "e", "r">>,
      \* not month names of the table
      <<"m", "a", "r", "z">>, <<"j", "U+00E4", "n", "n", "e", "r">>,
      <<"m", "a", "y">>, <<"m", "a", "i", "1">>, <<>> }

\* s with its first letter in upper case
Capitalized(s) == IF s = <<>> THEN s ELSE upper(<<Head(s)>>) \o Tail(s)

MonthInputNames ==
    UNION {{n, upper(n), Capitalized(n)} : n \in MonthSpellings}

GermanDateInputs ==
    { lead \o d \o <<".">> \o s1 \o n \o s2 \o y \o trail :
        lead \in {<<>>, <<" ">>},
        d \in {<<"6">>, <<"0", "6">>, <<"3", "1">>, <<"1", "2", "3">>},
        s1 \in {<<" ">>, <<>>, <<" ", NBSP>>},
        n \in MonthInputNames,
        s2 \in {<<" ">>, <<>>},
        y \in { <<"2", "0", "2", "5">>, <<"0", "0", "2", "5">>,
                <<"2", "5">>, <<"2", "0", "2", "5", "1">> },
        trail \in {<<>>, <<"\n">>, <<"x">>} }

InitGermanDate ==
    /\ pc = "call"
    /\ call = "-"
    /\ arg \in GermanDateInputs
    /\ ret = None
    /\ SortIdle

Call_parse_german_date ==
    /\ pc = "call"
    /\ call' = "parse_german_date"
    /\ ret' = parse_german_date(arg)
    /\ pc' = "returned"
    /\ UNCHANGED <<arg, sortVars>>

NextGermanDate == Call_parse_german_date

SpecGermanDate == InitGermanDate /\ [][NextGermanDate]_vars

\* the twelve German month names in either diacritic spelling, lower case,
\* with the month's two-digit number
GermanMonthNames ==
    { << <<"j", "a", "n", "u", "a", "r">>, <<"0", "1">> >>,
      << <<"f", "e", "b", "r", "u", "a", "r">>, <<"0", "2">> >>,
      << <<"m", "U+00E4", "r", "z">>, <<"0", "3">> >>,
      << <<"m", "a", "e", "r", "z">>, <<"0", "3">> >>,
      << <<"a", "p", "r", "i", "l">>, <<"0", "4">> >>,
      << <<"m", "a", "i">>, <<"0", "5">> >>,
      << <<"j", "u", "n", "i">>, <<"0", "6">> >>,
      << <<"j", "u", "l", "i">>, <<"0", "7">> >>,
      << <<"a", "u", "g", "u", "s", "t">>, <<"0", "8">> >>,
      << <<"s", "e", "p", "t", "e", "m", "b", "e", "r">>, <<"0", "9">> >>,
      << <<"o", "k", "t", "o", "b", "e", "r">>, <<"1", "0">> >>,
      << <<"n", "o", "v", "e", "m", "b", "e", "r">>, <<"1", "1">> >>,
      << <<"d", "e", "z", "e", "m", "b", "e", "r">>, <<"1", "2">> >> }

AllIn(s, C) == \A i \in DOMAIN s : s[i] \in C

\* the length of the longest prefix of s without a whitespace character
RECURSIVE WordLen(_)
WordLen(s) ==
    IF s # <<>> /\ Head(s) \notin Whitespace THEN 1 + WordLen(Tail(s)) ELSE 0

\* the words of s: its maximal pieces without whitespace
RECURSIVE Words(_)
Words(s) ==
    LET t == lstrip(s)
    IN  IF t = <<>> THEN <<>>
        ELSE <<SubSeq(t, 1, WordLen(t))>> \o Words(Drop(t, WordLen(t)))

\* the text reads '<1-2 digit day>. <month name> <4-digit year>'
HasGermanShape(s) ==
    LET w == Words(s)
    IN  /\ Len(w) = 3
        /\ Len(w[1]) \in {2, 3}
        /\ w[1][Len(w[1])] = "."
        /\ AllIn(SubSeq(w[1], 1, Len(w[1]) - 1), Digits)
        /\ AllIn(w[2], MonthLetters)
        /\ Len(w[3]) = 4 /\ AllIn(w[3], Digits)

\* DD.MM.YYYY of a text of that shape whose month name is a German month
\* name in any letter case, None otherwise
RefGermanDate(s) ==
    LET w   == Words(s)
        day == SubSeq(w[1], 1, Len(w[1]) - 1)
    IN  IF ~HasGermanShape(s) THEN None
        ELSE IF ~\E e \in GermanMonthNames : e[1] = lower(w[2]) THEN None
        ELSE (IF Len(day) = 1 THEN <<"0">> \o day ELSE day) \o <<".">>
             \o (CHOOSE e \in GermanMonthNames : e[1] = lower(w[2]))[2]
             \o <<".">> \o w[3]

\* C10: parse_german_date returns the zero-padded DD.MM.YYYY with the
\* month's number for every text '<1-2 digit day>. <month name> <4-digit
\* year>' whose month name is, in any letter case and either diacritic
\* spelling, a German month name, and None for every other text.
C10_ParseGermanDate ==
    (pc = "returned" /\ call = "parse_german_date") =>
        ret = RefGermanDate(arg)

\* C10 without the years that start with a zero
C10_ParseGermanDateFromYear1000 ==
    (pc = "returned" /\ call = "parse_german_date"
     /\ ~(HasGermanShape(arg) /\ Words(arg)[3][1] = "0")) =>
        ret = RefGermanDate(arg)

-----------------------------------------------------------------------------
(* Bank statements (providers/szkb_provider.py) *)

\* SALDO_KEYWORDS
SALDO_KEYWORDS ==
    << <<"S", "c", "h", "l", "u", "s", "s", "s", "a", "l", "d", "o">> >>

\* the characters \w matches
WordChars == MonthLetters \cup Digits \cup {"_"}

\* \b(\d{2}\.\d{2}\.\d{4})\b matches at position i of t
DateAt(t, i) ==
    /\ i + 9 <= Len(t)
    /\ \A j \in 0 .. 9 :
          IF j \in {2, 5} THEN t[i + j] = "." ELSE t[i + j] \in Digits
    /\ i = 1 \/ t[i - 1] \notin WordChars
    /\ i + 9 = Len(t) \/ t[i + 10] \notin WordChars

\* re.findall from position i on: matches do not overlap
RECURSIVE FindDatesFrom(_, _)
FindDatesFrom(t, i) ==
    IF i > Len(t) THEN <<>>
    ELSE IF DateAt(t, i)
         THEN <<SubSeq(t, i, i + 9)>> \o FindDatesFrom(t, i + 10)
         ELSE FindDatesFrom(t, i + 1)

\* find_all_dates
find_all_dates(t) == FindDatesFrom(t, 1)

\* ord(c) for the characters of a date
Ord(c) == IF c = "." THEN 46 ELSE 48 + DigitVal(c)

\* a < b for Python strings made of digits and dots
RECURSIVE StrLess(_, _)
StrLess(a, b) ==
    IF b = <<>> THEN FALSE
    ELSE IF a = <<>> THEN TRUE
    ELSE IF Head(a) = Head(b) THEN StrLess(Tail(a), Tail(b))
    ELSE Ord(Head(a)) < Ord(Head(b))

\* find_period_from_dates taking the first and the last date found
find_period_from_dates_unsorted(dates) ==
    IF dates = <<>> THEN <<None, None>>
    ELSE <<dates[1], dates[Len(dates)]>>

\* find_period_from_dates: sorted(dates)[0], sorted(dates)[-1]
find_period_from_dates(dates) ==
    IF dates = <<>> THEN <<None, None>>
    ELSE LET D == {dates[i] : i \in DOMAIN dates}
         IN  << CHOOSE d \in D : \A e \in D : ~StrLess(e, d),
                CHOOSE d \in D : \A e \in D : ~StrLess(d, e) >>

\* the length of the longest prefix of s without a line break
RECURSIVE LineLen(_)
LineLen(s) == IF s # <<>> /\ Head(s) # "\n" THEN 1 + LineLen(Tail(s)) ELSE 0

\* text.splitlines()
RECURSIVE splitlines(_)
splitlines(s) ==
    IF s = <<>> THEN <<>>
    ELSE <<SubSeq(s, 1, LineLen(s))>> \o splitlines(Drop(s, LineLen(s) + 1))

\* the characters of [0-9' ]
AmountClass == Digits \cup {"'", " "}

\* ([+-]?[0-9' ]+\.\d{2}) tried at position j of l: the index of the last
\* character matched, 0 for no match
Group2End(l, j) ==
    LET j1 == IF j <= Len(l) /\ l[j] \in {"+", "-"} THEN j + 1 ELSE j
        n  == Run(Drop(l, j1 - 1), AmountClass)
        e  == j1 + n
    IN  IF /\ n >= 1
           /\ e + 2 <= Len(l)
           /\ l[e] = "."
           /\ l[e + 1] \in Digits
           /\ l[e + 2] \in Digits
        THEN e + 2
        ELSE 0

\* [+-]?\s*CHF\s* tried at position i of l: the positions at which group 2
\* may start, the greedy one last (the whitespace after CHF is given back
\* character by character); empty when CHF is not there
Group1Ends(l, i) ==
    LET i1 == IF i <= Len(l) /\ l[i] \in {"+", "-"} THEN i + 1 ELSE i
        i2 == i1 + Run(Drop(l, i1 - 1), Whitespace)
        i3 == i2 + 3
        w  == Run(Drop(l, i3 - 1), Whitespace)
    IN  IF i2 + 2 <= Len(l) /\ SubSeq(l, i2, i2 + 2) = <<"C", "H", "F">>
        THEN {i3 + k : k \in 0 .. w}
        ELSE {}

Max(S) == CHOOSE x \in S : \A y \in S : y <= x

Min(S) == CHOOSE x \in S : \A y \in S : x <= y

\* ([+-]?\s*CHF\s*)?([+-]?[0-9' ]+\.\d{2}) tried at position i of l:
\* <<start, end>> of group 2, <<0, 0>> for no match
SaldoMatchAt(l, i) ==
    LET starts == {j \in Group1Ends(l, i) : Group2End(l, j) > 0}
    IN  IF starts # {} THEN <<Max(starts), Group2End(l, Max(starts))>>
        ELSE IF Group2End(l, i) > 0 THEN <<i, Group2End(l, i)>>
        ELSE <<0, 0>>

\* re.search of that pattern in l: group 2, or None
SaldoSearch(l) ==
    LET hits == {i \in 1 .. Len(l) : SaldoMatchAt(l, i)[1] > 0}
        m    == SaldoMatchAt(l, Min(hits))
    IN  IF hits = {} THEN None ELSE SubSeq(l, m[1], m[2])

\* one element of re.findall(r"(Saldo.*)", text, IGNORECASE): the line from
\* its first "saldo" on
SaldoTail(line) ==
    LET u == upper(line)
        P == {i \in 1 .. Len(u) - 4 :
                SubSeq(u, i, i + 4) = <<"S", "A", "L", "D", "O">>}
    IN  SubSeq(line, Min(P), Len(line))

HasSaldo(line) == IsSubstring(<<"S", "A", "L", "D", "O">>, upper(line))

HasSaldoKeyword(line) ==
    \E i \in DOMAIN SALDO_KEYWORDS :
        IsSubstring(upper(SALDO_KEYWORDS[i]), upper(line))

\* the list "lines" of find_saldo before its last element is taken
SaldoLines(t) ==
    LET kw == SelectSeq(splitlines(t), HasSaldoKeyword)
        fb == SelectSeq(splitlines(t), HasSaldo)
    IN  IF kw # <<>> THEN kw ELSE [i \in DOMAIN fb |-> SaldoTail(fb[i])]

\* find_saldo taking the first of its lines, not the last
find_saldo_first_line(t) ==
    LET lines      == SaldoLines(t)
        first_line == lines[1]
        m          == SaldoSearch(first_line)
    IN  IF lines = <<>> THEN None
        ELSE IF m = None THEN None
        ELSE strip(m)

\* find_saldo
SaldoOfMatch(m) == IF m = None THEN None ELSE strip(m)

SaldoOfLines(lines) ==
    IF lines = <<>> THEN None ELSE SaldoOfMatch(SaldoSearch(lines[Len(lines)]))

find_saldo(t) == SaldoOfLines(SaldoLines(t))

\* x itself, also when it is None
OrZero_keep(x) == x

\* "x or 0.0" for x a float or None
OrZero(x) == IF x = None \/ x = Float(0, 0) THEN Float(0, 0) ELSE x

\* the text, "" for None ("x or ''")
OrEmpty(x) == IF x = None THEN <<>> ELSE x

\* SZKBProvider.parse_invoice
SzkbInvoice(period, saldo_str, filename) ==
    [from_date |-> OrEmpty(period[1]),
     to_date   |-> OrEmpty(period[2]),
     saldo     |-> IF saldo_str # None /\ saldo_str # <<>>
                   THEN OrZero(szkb_normalize_amount(saldo_str))
                   ELSE Float(0, 0),
     file      |-> filename]

SZKB_parse_invoice(t, filename) ==
    SzkbInvoice(find_period_from_dates(find_all_dates(t)), find_saldo(t),
                filename)

\* the pieces statement texts are put together from
SaldoTokens ==
    { <<"S", "c", "h", "l", "u", "s", "s", "s", "a", "l", "d", "o", " ">>,
      <<"S", "a", "l", "d", "o", " ">>,
      <<"C", "H", "F">>,
      <<" ">>,
      <<"-">>,
      <<"+">>,
      <<"1", "'", "2", "3", "4", ".", "5", "0">>,
      <<"\n">> }

MaxSaldoTokens == 4

RECURSIVE Concat(_)
Concat(ss) == IF ss = <<>> THEN <<>> ELSE Head(ss) \o Concat(Tail(ss))

StatementTexts ==
    {Concat(ts) : ts \in StringsUpTo(SaldoTokens, MaxSaldoTokens)}

FileNames == {"a.pdf", "b.pdf"}

InitSzkb ==
    /\ call = "-"
    /\ ret = None
    /\ SortIdle
    /\ \/ /\ pc = "call"
          /\ arg \in AmountInputs
       \/ /\ pc = "parse"
          /\ arg \in [text : StatementTexts, filename : FileNames]

Call_SZKB_parse_invoice ==
    /\ pc = "parse"
    /\ call' = "SZKB_parse_invoice"
    /\ ret' = SZKB_parse_invoice(arg.text, arg.filename)
    /\ pc' = "parsed"
    /\ UNCHANGED <<arg, sortVars>>

NextSzkb ==
    \/ Call_szkb_normalize_amount
    \/ Call_SZKB_parse_invoice

SpecSzkb == InitSzkb /\ [][NextSzkb]_vars

\* an amount without a sign: digits and the separators the amount patterns
\* of the source capture (apostrophe, space, comma, dot)
UnsignedAmount(a) ==
    a # <<>> /\ AllIn(a, Digits \cup {"'", " ", ",", "."})

\* C7: signs are preserved.  For every unsigned amount string a that
\* normalizes to v, "-" + a and "- " + a normalize to -v and "+" + a to v;
\* and a closing balance find_saldo captures with a leading sign has that
\* sign in the saldo parse_invoice emits.
C7_SignPreserved ==
    /\ (/\ pc = "returned"
        /\ call = "szkb_normalize_amount"
        /\ UnsignedAmount(arg)
        /\ IsFloat(ret)) =>
           /\ szkb_normalize_amount(<<"-">> \o arg) = Neg(ret)
           /\ szkb_normalize_amount(<<"-", " ">> \o arg) = Neg(ret)
           /\ szkb_normalize_amount(<<"+">> \o arg) = ret
    /\ pc = "parsed" =>
           LET c == find_saldo(arg.text)
               v == RefAmount(Tail(c))
           IN  (c # None /\ c[1] \in {"+", "-"}) =>
                  /\ IsFloat(v)
                  /\ ret.saldo = (IF c[1] = "-" THEN Neg(v) ELSE v)

C7_Witness ==
    /\ pc = "parsed"
    /\ arg.text = <<"S", "c", "h", "l", "u", "s", "s", "s", "a", "l", "d",
                    "o", " ", "-", "1", "'", "2", "3", "4", ".", "5", "0">>
    /\ ret.saldo = <<"float", 0 - 12345, 1>>

-----------------------------------------------------------------------------
(* Providers (providers/base_provider.py and its subclasses) *)

\* SZKBProvider.REQUIRED_KEYWORDS
SZKB_REQUIRED_KEYWORDS ==
    <<
        <<"S", "c", "h", "w", "y", "z", "e", "r", " ", "K", "a", "n", "t",
          "o", "n", "a", "l", "b", "a", "n", "k">>,
        <<"P", "r", "i", "v", "a", "t", "k", "o", "n", "t", "o">>,
        <<"8", "1", "2", "1", "8", "6", "-", "0", "5", "6", "0">>
    >>

\* SwisscomProvider.REQUIRED_KEYWORDS
Swisscom_REQUIRED_KEYWORDS ==
    <<
        <<"S", "w", "i", "s", "s", "c", "o", "m", " ", "(", "S", "c", "h",
          "w", "e", "i", "z", ")", " ", "A", "G">>,
        <<"R", "e", "c", "h", "n", "u", "n", "g", "s", "t", "o", "t", "a",
          "l", " ", "i", "n", " ", "C", "H", "F", " ", "i", "n", "k", "l",
          ".", " ", "M", "W", "S", "T">>
    >>

\* SwisscardProvider.REQUIRED_KEYWORDS
Swisscard_REQUIRED_KEYWORDS ==
    <<
        <<"S", "w", "i", "s", "s", "c", "a", "r", "d", " ", "A", "E", "C",
          "S", " ", "G", "m", "b", "H">>,
        <<"C", "a", "s", "h", "b", "a", "c", "k", " ", "C", "a", "r", "d",
          "s">>,
        <<"1", "0", "0", "1", " ", "0", "7", "6", "5", " ", "2", "9", "4">>
    >>

\* REQUIRED_KEYWORDS of a provider; a provider that does not set it has the
\* empty list of InvoiceProvider
REQUIRED_KEYWORDS(provider) ==
    CASE provider = "SZKB_Privatkonto" -> SZKB_REQUIRED_KEYWORDS
      [] provider = "Swisscom" -> Swisscom_REQUIRED_KEYWORDS
      [] provider = "Swisscard" -> Swisscard_REQUIRED_KEYWORDS
      [] OTHER -> <<>>

\* target_dir of a provider
target_dir(provider) ==
    CASE provider = "SZKB_Privatkonto" -> "SZKB_DIR"
      [] provider = "Swisscom" -> "SWISSCOM_DIR"
      [] provider = "Swisscard" -> "SWISSCARD_DIR"

\* InvoiceProvider.matches without the replacement of U+00A0
matches_keep_nbsp(provider, t) ==
    /\ REQUIRED_KEYWORDS(provider) # <<>>
    /\ \A i \in DOMAIN REQUIRED_KEYWORDS(provider) :
          IsSubstring(upper(REQUIRED_KEYWORDS(provider)[i]), upper(t))

\* InvoiceProvider.matches
matches(provider, t) ==
    LET up == replace(upper(t), NBSP, <<" ">>)
    IN  IF REQUIRED_KEYWORDS(provider) = <<>> THEN FALSE
        ELSE \A i \in DOMAIN REQUIRED_KEYWORDS(provider) :
                IsSubstring(upper(REQUIRED_KEYWORDS(provider)[i]), up)

\* the ways a document may carry a keyword: not at all, as written, in
\* upper or lower case, with non-breaking spaces, cut short
Renderings(kw) ==
    { <<>>, kw, upper(kw), lower(kw), replace(kw, " ", <<NBSP>>),
      SubSeq(kw, 1, Len(kw) - 1) }

\* one rendering of each keyword of the list, a line each
RECURSIVE RenderedLines(_)
RenderedLines(kws) ==
    IF kws = <<>> THEN {<<>>}
    ELSE {r \o <<"\n">> \o rest :
             r \in Renderings(Head(kws)), rest \in RenderedLines(Tail(kws))}

\* the keywords of the list as written, a line each
RECURSIVE Bundle(_)
Bundle(kws) ==
    IF kws = <<>> THEN <<>> ELSE Head(kws) \o <<"\n">> \o Bundle(Tail(kws))

AllProviders == {"SZKB_Privatkonto", "Swisscom", "Swisscard", "InvoiceProvider"}

MatchInputs ==
    UNION { [provider : {p},
             text : {pre \o body \o post :
                       pre \in {<<>>} \cup
                               {Bundle(REQUIRED_KEYWORDS(q)) : q \in AllProviders},
                       body \in RenderedLines(REQUIRED_KEYWORDS(p)),
                       post \in {<<>>, <<"x">>}}] : p \in AllProviders }

InitMatches ==
    /\ pc = "call"
    /\ call = "-"
    /\ arg \in MatchInputs
    /\ ret = None
    /\ SortIdle

Call_matches ==
    /\ pc = "call"
    /\ call' = "matches"
    /\ ret' = matches(arg.provider, arg.text)
    /\ pc' = "returned"
    /\ UNCHANGED <<arg, sortVars>>

NextMatches == Call_matches

SpecMatches == InitMatches /\ [][NextMatches]_vars

\* the same letter up to case
SameLetter(a, b) ==
    \/ a = b
    \/ a \in DOMAIN ToLower /\ ToLower[a] = b
    \/ b \in DOMAIN ToLower /\ ToLower[b] = a

\* kw occurs in t, letters compared without regard to case
OccursIgnoringCase(kw, t) ==
    \E i \in 0 .. (Len(t) - Len(kw)) :
        \A j \in DOMAIN kw : SameLetter(t[i + j], kw[j])

\* t with every non-breaking space turned into a regular space
SpacesOnly(t) == [i \in DOMAIN t |-> IF t[i] = NBSP THEN " " ELSE t[i]]

\* C1: matches(text) is true iff the keyword list is non-empty and every
\* keyword is, without regard to case, a substring of the text with its
\* non-breaking spaces replaced by spaces; one missing keyword makes it
\* false, and a provider with an empty keyword list matches nothing.
C1_MatchesIffAllKeywords ==
    (pc = "returned" /\ call = "matches") =>
        LET kws == REQUIRED_KEYWORDS(arg.provider)
        IN  ret = (/\ kws # <<>>
                   /\ \A i \in DOMAIN kws :
                         OccursIgnoringCase(kws[i], SpacesOnly(arg.text)))

C1_Witness ==
    /\ pc = "returned"
    /\ call = "matches"
    /\ arg.provider = "Swisscard"
    /\ arg.text = Bundle(<<upper(Swisscard_REQUIRED_KEYWORDS[1]),
                           lower(Swisscard_REQUIRED_KEYWORDS[2]),
                           replace(Swisscard_REQUIRED_KEYWORDS[3], " ", <<NBSP>>)>>)
    /\ ret = TRUE

-----------------------------------------------------------------------------
(* sort_all.main *)

\* the list with Swisscom registered before SZKB
providers_swisscom_first == <<"Swisscom", "SZKB_Privatkonto", "Swisscard">>

\* the list "providers" of main
providers == <<"SZKB_Privatkonto", "Swisscom", "Swisscard">>

MaxPdfs == 2

\* the texts of the PDFs an inbox may hold: a statement, an invoice,
\* documents that carry the keywords of two providers (in an order other
\* than the registry's), and documents of no provider
InboxTexts ==
    { Bundle(SZKB_REQUIRED_KEYWORDS),
      Bundle(Swisscard_REQUIRED_KEYWORDS),
      Bundle(Swisscom_REQUIRED_KEYWORDS) \o Bundle(SZKB_REQUIRED_KEYWORDS),
      Bundle(Swisscard_REQUIRED_KEYWORDS) \o Bundle(Swisscom_REQUIRED_KEYWORDS),
      Bundle(Tail(Swisscard_REQUIRED_KEYWORDS)),
      <<>> }

\* settings.py creates every target directory when it is imported, before
\* main runs
TargetDirs == {target_dir(providers[i]) : i \in DOMAIN providers}

InitSort ==
    /\ pc = "for"
    /\ call = "-"
    /\ arg = <<>>
    /\ ret = None
    /\ pdf_files \in StringsUpTo(InboxTexts, MaxPdfs)
    /\ idx = 1
    /\ text = <<>>
    /\ consulted = <<>>
    /\ matched_provider = "None"
    /\ moved = 0
    /\ unmatched = <<>>
    /\ location = [i \in DOMAIN pdf_files |-> "INBOX"]
    /\ dirs = TargetDirs

\* lines 55-56: extract_text succeeds
ExtractText ==
    /\ pc = "for"
    /\ idx <= Len(pdf_files)
    /\ text' = pdf_files[idx]
    /\ matched_provider' = "None"
    /\ consulted' = <<>>
    /\ pc' = "classify"
    /\ UNCHANGED <<callVars, pdf_files, idx, moved, unmatched, location, dirs>>

\* lines 57-60: extract_text raises
ExtractTextFails ==
    /\ pc = "for"
    /\ idx <= Len(pdf_files)
    /\ unmatched' = Append(unmatched, idx)
    /\ idx' = idx + 1
    /\ UNCHANGED <<pc, callVars, pdf_files, text, consulted, matched_provider,
                   moved, location, dirs>>

\* lines 64-67: one round of the loop over the providers
ConsultProvider ==
    /\ pc = "classify"
    /\ LET provider == providers[Len(consulted) + 1]
       IN  /\ consulted' = Append(consulted, provider)
           /\ IF matches(provider, text)
              THEN /\ matched_provider' = provider
                   /\ pc' = "matched"
              ELSE /\ matched_provider' = matched_provider
                   /\ pc' = IF Len(consulted) + 1 = Len(providers)
                            THEN "matched" ELSE "classify"
    /\ UNCHANGED <<callVars, pdf_files, idx, text, moved, unmatched,
                   location, dirs>>

\* lines 69-72: no provider matched
NoProviderMatched ==
    /\ pc = "matched"
    /\ matched_provider = "None"
    /\ unmatched' = Append(unmatched, idx)
    /\ idx' = idx + 1
    /\ pc' = "for"
    /\ UNCHANGED <<callVars, pdf_files, text, consulted, matched_provider,
                   moved, location, dirs>>

\* lines 74-76: target_dir.mkdir(parents=True, exist_ok=True); the directory
\* exists since the import of settings, so the call changes nothing
Mkdir ==
    /\ pc = "matched"
    /\ matched_provider # "None"
    /\ dirs' = dirs \cup {target_dir(matched_provider)}
    /\ pc' = "move"
    /\ UNCHANGED <<callVars, pdf_files, idx, text, consulted,
                   matched_provider, moved, unmatched, location>>

\* lines 78-81: shutil.move succeeds
Move ==
    /\ pc = "move"
    /\ location' = [location EXCEPT ![idx] = target_dir(matched_provider)]
    /\ moved' = moved + 1
    /\ idx' = idx + 1
    /\ pc' = "for"
    /\ UNCHANGED <<callVars, pdf_files, text, consulted, matched_provider,
                   unmatched, dirs>>

\* a failed move that is not recorded in unmatched
MoveFails_unlisted ==
    /\ pc = "move"
    /\ idx' = idx + 1
    /\ pc' = "for"
    /\ UNCHANGED <<callVars, pdf_files, text, consulted, matched_provider,
                   moved, unmatched, location, dirs>>

\* lines 82-84: shutil.move raises; the file stays where it was
MoveFails ==
    /\ pc = "move"
    /\ unmatched' = Append(unmatched, idx)
    /\ idx' = idx + 1
    /\ pc' = "for"
    /\ UNCHANGED <<callVars, pdf_files, text, consulted, matched_provider,
                   moved, location, dirs>>

\* lines 86-93: the loop is over, the summary is printed
Summary ==
    /\ pc = "for"
    /\ idx > Len(pdf_files)
    /\ pc' = "done"
    /\ UNCHANGED <<callVars, sortVars>>

NextSort ==
    \/ ExtractText
    \/ ExtractTextFails
    \/ ConsultProvider
    \/ NoProviderMatched
    \/ Mkdir
    \/ Move
    \/ MoveFails
    \/ Summary

SpecSort == InitSort /\ [][NextSort]_vars

\* the registry order the claim names
RegistryOrder == <<"SZKB_Privatkonto", "Swisscom", "Swisscard">>

\* the places in the registry order of the providers that match t
Hits(t) == {i \in DOMAIN RegistryOrder : matches(RegistryOrder[i], t)}

\* the first provider of the registry order that matches t
FirstMatch(t) ==
    LET hits == Hits(t)
    IN  IF hits = {} THEN "None" ELSE RegistryOrder[Min(hits)]

\* C2: classification returns the first provider, in the order SZKB,
\* Swisscom, Swisscard, whose matches(text) is true; the providers after it
\* are not consulted; and the result depends on the text alone, so a text
\* classified again gets the same provider (every moved PDF lies in the
\* directory of the first provider matching its text).
C2_FirstMatchWins ==
    /\ pc \in {"matched", "move"} =>
          LET hits == Hits(text)
          IN  /\ matched_provider = FirstMatch(text)
              /\ consulted = IF hits = {} THEN RegistryOrder
                             ELSE SubSeq(RegistryOrder, 1, Min(hits))
    /\ \A i \in DOMAIN location :
          location[i] # "INBOX" =>
             LET first == FirstMatch(pdf_files[i])
             IN  /\ first # "None"
                 /\ location[i] = target_dir(first)

C2_Witness ==
    /\ pc = "matched"
    /\ text = Bundle(Swisscom_REQUIRED_KEYWORDS) \o Bundle(SZKB_REQUIRED_KEYWORDS)
    /\ matches("Swisscom", text)
    /\ matched_provider = "SZKB_Privatkonto"
    /\ consulted = <<"SZKB_Privatkonto">>
    /\ idx = 2
    /\ location[1] = "SZKB_DIR"
    /\ pdf_files[1] = text

\* the PDFs listed in unmatched
Unmatched == {unmatched[k] : k \in DOMAIN unmatched}

\* PDF i has exactly one terminal outcome
OneOutcome(i) ==
    \/ /\ location[i] # "INBOX"
       /\ LET first == FirstMatch(pdf_files[i])
          IN  first # "None" /\ location[i] = target_dir(first)
       /\ i \notin Unmatched
    \/ /\ location[i] = "INBOX"
       /\ Cardinality({k \in DOMAIN unmatched : unmatched[k] = i}) = 1

\* main has a next step: the guard of one of its steps holds
CanStep ==
    \/ pc = "for" /\ idx <= Len(pdf_files) + 1
    \/ pc = "classify" /\ Len(consulted) < Len(providers)
    \/ pc = "matched"
    \/ pc = "move" /\ matched_provider # "None"

\* C3: every PDF of the inbox reaches exactly one terminal outcome (moved to
\* the directory of the first matching provider and counted in moved, or
\* left in the inbox and listed in unmatched); a failing or unrecognized
\* document never aborts the loop (main always has a next step until the
\* summary, and reaches the summary only past the last PDF), and at the end
\* moved + len(unmatched) is the number of PDFs found.
C3_EveryPdfOneOutcome ==
    /\ \A i \in DOMAIN pdf_files : i < idx => OneOutcome(i)
    /\ moved = Cardinality({i \in DOMAIN location : location[i] # "INBOX"})
    /\ pc # "done" => CanStep
    /\ pc = "done" =>
          /\ idx = Len(pdf_files) + 1
          /\ moved + Len(unmatched) = Len(pdf_files)

C3_Witness ==
    /\ pc = "done"
    /\ Len(pdf_files) = 2
    /\ unmatched = <<1>>
    /\ FirstMatch(pdf_files[1]) # "None"
    /\ location = <<"INBOX", "SWISSCOM_DIR">>
    /\ moved = 1

-----------------------------------------------------------------------------
(* Field extraction (providers/swisscom_provider.py, swisscard_provider.py) *)

\* lit stands at position i of t
LitAt(t, i, lit) ==
    /\ i >= 1
    /\ i + Len(lit) - 1 <= Len(t)
    /\ SubSeq(t, i, i + Len(lit) - 1) = lit

\* the number of characters of the set C that stand at position i of t and
\* after it without a gap
RunAt(t, i, C) == Run(Drop(t, i - 1), C)

\* \s+([0-9' ]+\.\d{2}) tried at position p of t: <<start, end>> of the
\* group, <<0, 0>> for no match (\s+ gives spaces back to the group when
\* nothing else is left for it)
LabelledAmountAt(t, p) ==
    LET w      == RunAt(t, p, Whitespace)
        End(s) == s + RunAt(t, s, AmountClass)
        starts == {s \in p + 1 .. p + w :
                     /\ End(s) > s
                     /\ End(s) + 2 <= Len(t)
                     /\ t[End(s)] = "."
                     /\ t[End(s) + 1] \in Digits
                     /\ t[End(s) + 2] \in Digits}
    IN  IF starts = {} THEN <<0, 0>>
        ELSE <<Max(starts), End(Max(starts)) + 2>>

\* the literals of parts with \s+ between them, tried at position i of t:
\* the position after the last literal, 0 for no match
RECURSIVE PartsEnd(_, _, _)
PartsEnd(t, i, parts) ==
    IF ~LitAt(t, i, Head(parts)) THEN 0
    ELSE LET j == i + Len(Head(parts))
             w == RunAt(t, j, Whitespace)
         IN  IF Len(parts) = 1 THEN j
             ELSE IF w = 0 THEN 0
             ELSE PartsEnd(t, j + w, Tail(parts))

\* re.search of a label followed by \s+([0-9' ]+\.\d{2}): group 1 of the
\* leftmost match, or None
SearchLabelledAmount(t, parts) ==
    LET hits == {i \in 1 .. Len(t) :
                   /\ PartsEnd(t, i, parts) > 0
                   /\ LabelledAmountAt(t, PartsEnd(t, i, parts))[1] > 0}
        m    == LabelledAmountAt(t, PartsEnd(t, Min(hits), parts))
    IN  IF hits = {} THEN None ELSE SubSeq(t, m[1], m[2])

\* the label of the summary: Rechnungstotal in CHF inkl\. MWST
SummaryLabel == << <<"R", "e", "c", "h", "n", "u", "n", "g", "s", "t", "o",
    "t", "a", "l", " ", "i", "n", " ", "C", "H", "F", " ", "i", "n", "k",
    "l", ".", " ", "M", "W", "S", "T">> >>

\* the label of the eBill block: Rechnungsbetrag\s+inkl\. MWST\s+CHF
EBillLabel == << <<"R", "e", "c", "h", "n", "u", "n", "g", "s", "b", "e",
    "t", "r", "a", "g">>, <<"i", "n", "k", "l", ".", " ", "M", "W", "S",
    "T">>, <<"C", "H", "F">> >>

\* the label of the payment slip: Währung\s+CHF\s+Betrag
SlipLabel == << <<"W", "U+00E4", "h", "r", "u", "n", "g">>, <<"C", "H",
    "F">>, <<"B", "e", "t", "r", "a", "g">> >>

\* find_amount with the eBill label tried before the summary label
find_amount_ebill_first(t) ==
    LET m1 == SearchLabelledAmount(t, SummaryLabel)
        m2 == SearchLabelledAmount(t, EBillLabel)
        m3 == SearchLabelledAmount(t, SlipLabel)
    IN  IF m2 # None THEN strip(m2)
        ELSE IF m1 # None THEN strip(m1)
        ELSE IF m3 # None THEN strip(m3)
        ELSE None

\* find_amount
find_amount(t) ==
    LET m1 == SearchLabelledAmount(t, SummaryLabel)
        m2 == SearchLabelledAmount(t, EBillLabel)
        m3 == SearchLabelledAmount(t, SlipLabel)
    IN  IF m1 # None THEN strip(m1)
        ELSE IF m2 # None THEN strip(m2)
        ELSE IF m3 # None THEN strip(m3)
        ELSE None

\* \d{1,2}\.\s+[A-Za-zÄÖÜäöü]+\s+\d{4} tried at position p of t: the
\* position of the last character matched, 0 for no match
SpelledDateEnd(t, p) ==
    LET nd == RunAt(t, p, Digits)
        q  == p + nd + 1
        w1 == RunAt(t, q, Whitespace)
        nl == RunAt(t, q + w1, MonthLetters)
        w2 == RunAt(t, q + w1 + nl, Whitespace)
        y  == q + w1 + nl + w2
    IN  IF /\ nd \in {1, 2}
           /\ p + nd <= Len(t) /\ t[p + nd] = "."
           /\ w1 >= 1 /\ nl >= 1 /\ w2 >= 1
           /\ y + 3 <= Len(t) /\ AllDigits(SubSeq(t, y, y + 3))
        THEN y + 3
        ELSE 0

\* Datum[: ]+(...) tried at position i of t: <<start, end>> of the group,
\* <<0, 0>> for no match
DatumAt(t, i) ==
    LET c == RunAt(t, i + 5, {":", " "})
        p == i + 5 + c
    IN  IF LitAt(t, i, <<"D", "a", "t", "u",
        "m">>) /\ c >= 1 /\ SpelledDateEnd(t, p) > 0
        THEN <<p, SpelledDateEnd(t, p)>>
        ELSE <<0, 0>>

\* find_datum
find_datum(t) ==
    LET hits == {i \in 1 .. Len(t) : DatumAt(t, i)[1] > 0}
        m    == DatumAt(t, Min(hits))
    IN  IF hits = {} THEN None
        ELSE parse_german_date(SubSeq(t, m[1], m[2]))

\* SwisscomProvider.parse_invoice
Swisscom_parse_invoice(t, filename) ==
    LET date_str   == find_datum(t)
        amount_str == find_amount(t)
        amount_num == IF amount_str = None THEN Float(0, 0)
                      ELSE OrZero(normalize_amount_for_number(amount_str))
    IN  [date   |-> OrEmpty(date_str),
         amount |-> amount_num,
         file   |-> filename]

\* \d{2}\.\d{2}\.\d{4} stands at position i of t
DateShapeAt(t, i) ==
    /\ i >= 1
    /\ i + 9 <= Len(t)
    /\ \A j \in 0 .. 9 :
          IF j \in {2, 5} THEN t[i + j] = "." ELSE t[i + j] \in Digits

\* find_rechnungsdatum
find_rechnungsdatum(t) ==
    LET After(i) == i + 14 + RunAt(t, i + 14, Whitespace)
        hits == {i \in 1 .. Len(t) :
                   /\ LitAt(t, i, <<"R", "e", "c", "h", "n", "u", "n", "g",
                       "s", "d", "a", "t", "u", "m">>)
                   /\ After(i) > i + 14
                   /\ DateShapeAt(t, After(i))}
        any  == {i \in 1 .. Len(t) : DateAt(t, i)}
    IN  IF hits # {} THEN SubSeq(t, After(Min(hits)), After(Min(hits)) + 9)
        ELSE IF any # {} THEN SubSeq(t, Min(any), Min(any) + 9)
        ELSE None

\* the characters of [0-9' .]
BlockClass == Digits \cup {"'", " ", "."}

\* CHF\s*([0-9' .]+\d{2}) tried at position p of t, everything taken
\* greedily: <<start, end>> of the group, <<0, 0>> for no match
ChfAmountAt(t, p) ==
    LET q       == p + 3
        w       == RunAt(t, q, Whitespace)
        Ends(s) == {e \in s + 2 .. s + RunAt(t, s, BlockClass) - 1 :
                      t[e - 1] \in Digits /\ t[e] \in Digits}
        starts  == {s \in q .. q + w : Ends(s) # {}}
    IN  IF ~LitAt(t, p, <<"C", "H", "F">>) \/ starts = {} THEN <<0, 0>>
        ELSE <<Max(starts), Max(Ends(Max(starts)))>>

\* CHF\s*[0-9' .]+\d{2}(?:\s+CHF\s*[0-9' .]+\d{2}){n-1} tried at position p
\* of t: the groups <<start, end>> of the n amounts, <<>> for no match
RECURSIVE ChfAmountsAt(_, _, _)
ChfAmountsAt(t, p, n) ==
    LET a    == ChfAmountAt(t, p)
        w    == RunAt(t, a[2] + 1, Whitespace)
        rest == ChfAmountsAt(t, a[2] + 1 + w, n - 1)
    IN  IF a[1] = 0 THEN <<>>
        ELSE IF n = 1 THEN <<a>>
        ELSE IF w = 0 \/ rest = <<>> THEN <<>>
        ELSE <<a>> \o rest

\* find_betraege_block
find_betraege_block(t) ==
    LET marks  == {i \in 1 .. Len(t) : LitAt(t, i, <<"M", "i", "n", "d",
        "e", "s", "t", "z", "a", "h", "l", "u", "n", "g">>)}
        starts == {j \in Min(marks) + 14 .. Len(t) :
                     ChfAmountsAt(t, j, 5) # <<>>}
        m      == ChfAmountsAt(t, Min(starts), 5)
    IN  IF marks = {} THEN None
        ELSE IF starts = {} THEN None
        ELSE [k \in 1 .. 5 |-> SubSeq(t, m[k][1], m[k][2])]

\* SwisscardProvider.parse_invoice
Swisscard_parse_invoice(t, filename) ==
    LET rechnungsdatum == OrEmpty(find_rechnungsdatum(t))
        betraege       == find_betraege_block(t)
    IN  IF betraege = None
        THEN [date |-> rechnungsdatum, amount |-> Float(0, 0),
              file |-> filename]
        ELSE [date   |-> rechnungsdatum,
              amount |-> OrZero(swisscard_normalize_amount(betraege[4])),
              file   |-> filename]

-----------------------------------------------------------------------------
(* The Swisscard scanner scripts (scan&move_swisscard.py, old/v0) *)

\* SWISSCARD_KEYWORDS
SWISSCARD_KEYWORDS == << <<"S", "w", "i", "s", "s", "c", "a", "r", "d", " ",
    "A", "E", "C", "S">>, <<"C", "a", "s", "h", "b", "a", "c", "k", " ",
    "C", "a", "r", "d", "s">> >>

\* is_swisscard_invoice
is_swisscard_invoice(t) ==
    \E i \in DOMAIN SWISSCARD_KEYWORDS :
        IsSubstring(upper(SWISSCARD_KEYWORDS[i]), upper(t))

\* the value of Betrag_num in the row: the number, "" for None
NumOrEmpty(x) == IF x = None THEN <<>> ELSE x

\* main of scan&move_swisscard.py for one PDF text: the row written to the
\* CSV (Rechnungsdatum, Betrag_roh, Betrag_num, Art, Datei), None when the
\* PDF is passed over
scan_move_swisscard_row(t, fname, USE_MINDESTZAHLUNG) ==
    LET rechnungsdatum == find_rechnungsdatum(t)
        betraege       == find_betraege_block(t)
        betrag_str     == IF USE_MINDESTZAHLUNG THEN betraege[5]
                          ELSE betraege[4]
        art            == IF USE_MINDESTZAHLUNG THEN "Mindestzahlung"
                          ELSE "Neuer Saldo"
        betrag_num     == swisscard_normalize_amount(betrag_str)
    IN  IF ~is_swisscard_invoice(t) THEN None
        ELSE IF betraege = None THEN None
        ELSE <<OrEmpty(rechnungsdatum), betrag_str, NumOrEmpty(betrag_num),
               art, fname>>

\* main of old/v0/scan_move_swisscard.py for one PDF text
v0_scan_move_swisscard_row(t, fname, USE_MINDESTZAHLUNG) ==
    LET rechnungsdatum == find_rechnungsdatum(t)
        betraege       == find_betraege_block(t)
    IN  IF ~is_swisscard_invoice(t) THEN None
        ELSE IF betraege = None THEN None
        ELSE IF USE_MINDESTZAHLUNG
        THEN <<OrEmpty(rechnungsdatum), betraege[5],
               NumOrEmpty(swisscard_normalize_amount(betraege[5])),
               "Mindestzahlung", fname>>
        ELSE <<OrEmpty(rechnungsdatum), betraege[4],
               NumOrEmpty(swisscard_normalize_amount(betraege[4])),
               "Neuer Saldo", fname>>

-----------------------------------------------------------------------------
(* parse_invoice of the three providers and the scanner rows, on documents
   put together from lines *)

MaxLines == 3

MaxBlockAmounts == 6

\* the lines joined by line breaks
RECURSIVE JoinLines(_)
JoinLines(ls) ==
    IF ls = <<>> THEN <<>>
    ELSE IF Len(ls) = 1 THEN ls[1]
    ELSE ls[1] \o <<"\n">> \o JoinLines(Tail(ls))

\* lines of a telecom invoice: the summary total, the eBill total, the
\* payment slip, dates with a known and an unknown month, a label without
\* an amount
TelecomLines ==
    { <<"R", "e", "c", "h", "n", "u", "n", "g", "s", "t", "o", "t", "a",
        "l", " ", "i", "n", " ", "C", "H", "F", " ", "i", "n", "k", "l",
        ".", " ", "M", "W", "S", "T", " ", "1", "1", ".", "7", "0">>,
      <<"R", "e", "c", "h", "n", "u", "n", "g", "s", "b", "e", "t", "r",
          "a", "g", " ", "i", "n", "k", "l", ".", " ", "M", "W", "S", "T",
          " ", "C", "H", "F", " ", "2", "2", ".", "5", "0">>,
      <<"W", "U+00E4", "h", "r", "u", "n", "g", " ", "C", "H", "F", " ",
          "B", "e", "t", "r", "a", "g", " ", "3", "3", ".", "0", "0">>,
      <<"D", "a", "t", "u", "m", " ", "6", ".", " ", "N", "o", "v", "e",
          "m", "b", "e", "r", " ", "2", "0", "2", "5">>,
      <<"D", "a", "t", "u", "m", ":", " ", "1", ".", " ", "F", "o", "o",
          " ", "2", "0", "2", "5">>,
      <<"R", "e", "c", "h", "n", "u", "n", "g", "s", "t", "o", "t", "a",
          "l", " ", "i", "n", " ", "C", "H", "F", " ", "i", "n", "k", "l",
          ".", " ", "M", "W", "S", "T">> }

TelecomTexts == {JoinLines(ls) : ls \in StringsUpTo(TelecomLines, MaxLines)}

\* lines of an account statement: closing balances in several spellings,
\* a keyword line without an amount, a generic balance, booking dates
StatementLines ==
    { <<"S", "c", "h", "l", "u", "s", "s", "s", "a", "l", "d", "o", " ",
        "C", "H", "F", " ", "1", "0", ".", "0", "0">>,
      <<"S", "C", "H", "L", "U", "S", "S", "S", "A", "L", "D", "O", " ",
          "-", "2", "0", ".", "5", "0">>,
      <<"S", "c", "h", "l", "u", "s", "s", "s", "a", "l", "d", "o">>,
      <<"S", "a", "l", "d", "o", " ", "3", "0", ".", "0", "0">>,
      <<"1", "5", ".", "1", "2", ".", "2", "0", "2", "4", " ", "S", "a",
          "l", "d", "o", "v", "o", "r", "t", "r", "a", "g", " ", "5", ".",
          "0", "0">>,
      <<"3", "1", ".", "0", "1", ".", "2", "0", "2", "5", " ", "x", " ",
          "4", "0", ".", "0", "0">>,
      <<"0", "1", ".", "0", "2", ".", "2", "0", "2", "5">>,
      <<"V", "a", "l", "u", "t", "a", "1", "5", ".", "0", "3", ".", "2",
          "0", "2", "4">> }

StatementLineTexts ==
    {JoinLines(ls) : ls \in StringsUpTo(StatementLines, MaxLines)}

\* the amounts of a card invoice's block; the second one is no number
BlockAmounts == { <<"1", "0", ".", "0", "0">>, <<"1", ".", "0", "0", "0",
    ".", "5", "0">> }

\* "CHF a" for every amount a of the list, a space between them
RECURSIVE ChfList(_)
ChfList(as) ==
    IF as = <<>> THEN <<>>
    ELSE IF Len(as) = 1 THEN <<"C", "H", "F", " ">> \o as[1]
    ELSE <<"C", "H", "F", " ">> \o as[1] \o <<" ">> \o ChfList(Tail(as))

CardHeads ==
    { <<>>,
      <<"R", "e", "c", "h", "n", "u", "n", "g", "s", "d", "a", "t", "u",
          "m", " ", "2", "4", ".", "1", "0", ".", "2", "0", "2", "5", "\n">>,
      <<"C", "a", "s", "h", "b", "a", "c", "k", " ", "C", "a", "r", "d",
          "s", " ", "0", "1", ".", "0", "2", ".", "2", "0", "2", "5", "\n">> }

CardMarkers == { <<>>, <<"M", "i", "n", "d", "e", "s", "t", "z", "a", "h",
    "l", "u", "n", "g", "\n">> }

CardTexts ==
    {h \o m \o ChfList(as) :
        h \in CardHeads, m \in CardMarkers,
        as \in StringsUpTo(BlockAmounts, MaxBlockAmounts)}

InitParse ==
    /\ call = "-"
    /\ ret = None
    /\ SortIdle
    /\ \/ /\ pc = "parse_swisscom"
          /\ arg \in [text : TelecomTexts, filename : FileNames]
       \/ /\ pc = "parse"
          /\ arg \in [text : StatementLineTexts, filename : FileNames]
       \/ /\ pc \in {"parse_swisscard", "scan_swisscard", "v0_scan_swisscard"}
          /\ arg \in [text : CardTexts, filename : FileNames,
                      USE_MINDESTZAHLUNG : BOOLEAN]

Call_Swisscom_parse_invoice ==
    /\ pc = "parse_swisscom"
    /\ call' = "Swisscom_parse_invoice"
    /\ ret' = Swisscom_parse_invoice(arg.text, arg.filename)
    /\ pc' = "parsed"
    /\ UNCHANGED <<arg, sortVars>>

Call_Swisscard_parse_invoice ==
    /\ pc = "parse_swisscard"
    /\ call' = "Swisscard_parse_invoice"
    /\ ret' = Swisscard_parse_invoice(arg.text, arg.filename)
    /\ pc' = "parsed"
    /\ UNCHANGED <<arg, sortVars>>

Call_scan_move_swisscard ==
    /\ pc = "scan_swisscard"
    /\ call' = "scan_move_swisscard"
    /\ ret' = scan_move_swisscard_row(arg.text, arg.filename,
                                      arg.USE_MINDESTZAHLUNG)
    /\ pc' = "scanned"
    /\ UNCHANGED <<arg, sortVars>>

Call_v0_scan_move_swisscard ==
    /\ pc = "v0_scan_swisscard"
    /\ call' = "v0_scan_move_swisscard"
    /\ ret' = v0_scan_move_swisscard_row(arg.text, arg.filename,
                                         arg.USE_MINDESTZAHLUNG)
    /\ pc' = "scanned"
    /\ UNCHANGED <<arg, sortVars>>

NextParse ==
    \/ Call_Swisscom_parse_invoice
    \/ Call_Swisscard_parse_invoice
    \/ Call_SZKB_parse_invoice
    \/ Call_scan_move_swisscard
    \/ Call_v0_scan_move_swisscard

SpecParse == InitParse /\ [][NextParse]_vars

-----------------------------------------------------------------------------
(* Records of parse_invoice *)

\* the keys of the generic record
GenericKeys == {"date", "amount", "file"}

\* C11: for every provider and every (text, filename), parse_invoice returns
\* a mapping with at least the keys date, amount and file, file being the
\* given filename; provider-specific fields come on top of these keys.
C11_RecordHasGenericKeys ==
    pc = "parsed" =>
        /\ GenericKeys \subseteq DOMAIN ret
        /\ ret.file = arg.filename

\* C11 for the telecom and the card provider alone
C11_TelecomAndCardRecords ==
    (pc = "parsed" /\ call # "SZKB_parse_invoice") =>
        /\ DOMAIN ret = GenericKeys
        /\ ret.file = arg.filename

\* the record of the statement provider: the file and three fields of its
\* own, neither date nor amount
C11_StatementRecord ==
    (pc = "parsed" /\ call = "SZKB_parse_invoice") =>
        /\ DOMAIN ret = {"from_date", "to_date", "saldo", "file"}
        /\ ret.file = arg.filename

\* the monetary field of a record
Monetary(r) == IF "saldo" \in DOMAIN r THEN r.saldo ELSE r.amount

\* the date fields of a record
DateFields(r) ==
    IF "from_date" \in DOMAIN r THEN {r.from_date, r.to_date} ELSE {r.date}

\* the amount string the provider called finds in t and its number; None
\* when there is none
FoundAmount(t) ==
    CASE call = "Swisscom_parse_invoice" ->
            IF find_amount(t) = None THEN None
            ELSE normalize_amount_for_number(find_amount(t))
      [] call = "Swisscard_parse_invoice" ->
            IF find_betraege_block(t) = None THEN None
            ELSE swisscard_normalize_amount(find_betraege_block(t)[4])
      [] call = "SZKB_parse_invoice" ->
            IF find_saldo(t) = None THEN None
            ELSE szkb_normalize_amount(find_saldo(t))

\* the provider called finds no date in t
NoDateFound(t) ==
    CASE call = "Swisscom_parse_invoice" -> find_datum(t) = None
      [] call = "Swisscard_parse_invoice" -> find_rechnungsdatum(t) = None
      [] call = "SZKB_parse_invoice" -> find_all_dates(t) = <<>>

\* C12: extraction never raises on missing fields.  For every text each
\* provider returns a record whose monetary field is a number, 0.0 when the
\* amount is not found or cannot be normalized (never None), and whose
\* date is the empty string when no date is found; a text without a digit
\* has neither.
C12_MissingFieldsGiveDefaults ==
    pc = "parsed" =>
        /\ IsFloat(Monetary(ret))
        /\ FoundAmount(arg.text) = None => Monetary(ret) = Float(0, 0)
        /\ NoDateFound(arg.text) => DateFields(ret) = {<<>>}
        /\ (\A i \in DOMAIN arg.text : arg.text[i] \notin Digits) =>
              /\ Monetary(ret) = Float(0, 0)
              /\ DateFields(ret) = {<<>>}

C12_Witness ==
    /\ pc = "parsed"
    /\ call = "Swisscard_parse_invoice"
    /\ arg.text = <<"M", "i", "n", "d", "e", "s", "t", "z", "a", "h", "l",
        "u", "n", "g", "\n">> \o ChfList(<< <<"1", "0", ".", "0",
        "0">>, <<"1", "0", ".", "0", "0">>,
                      <<"1", "0", ".", "0", "0">>, <<"1", ".", "0", "0",
                          "0", ".", "5", "0">>, <<"1", "0", ".", "0",
                          "0">> >>)
    /\ find_betraege_block(arg.text)[4] = <<"1", ".", "0", "0", "0", ".",
        "5", "0">>
    /\ swisscard_normalize_amount(<<"1", ".", "0", "0", "0", ".", "5",
        "0">>) = None
    /\ ret = [date |-> <<>>, amount |-> Float(0, 0), file |-> arg.filename]

-----------------------------------------------------------------------------
(* The five-amount block of a card invoice *)

\* the positions at which "CHF" stands in t
ChfPositions(t) == {i \in 1 .. Len(t) : LitAt(t, i, <<"C", "H", "F">>)}

\* the k-th smallest element of the set S of numbers
Nth(S, k) == CHOOSE x \in S : Cardinality({y \in S : y <= x}) = k

\* the k-th amount of a text whose amounts are written "CHF a" with single
\* spaces between them: what stands between the k-th "CHF " and the space
\* before the next "CHF", or the end of the text
NthAmount(t, k) ==
    LET P == ChfPositions(t)
    IN  SubSeq(t, Nth(P, k) + 4,
               IF k < Cardinality(P) THEN Nth(P, k + 1) - 2 ELSE Len(t))

\* the marker stands in t, all amounts after it
HasMarker(t) == IsSubstring(<<"M", "i", "n", "d", "e", "s", "t", "z", "a",
    "h", "l", "u", "n", "g">>, t)

\* C13: where the marker 'Mindestzahlung' is followed by exactly five CHF
\* amounts, find_betraege_block returns the five in document order; on a
\* block of four or of six amounts it returns None, never a truncated or
\* partial list.
C13_ExactlyFiveAmounts ==
    (pc = "parsed" /\ call = "Swisscard_parse_invoice"
        /\ HasMarker(arg.text)) =>
        LET n == Cardinality(ChfPositions(arg.text))
            b == find_betraege_block(arg.text)
        IN  /\ n = 5 => b = [k \in 1 .. 5 |-> NthAmount(arg.text, k)]
            /\ n \in {4, 6} => b = None

\* C13 without the block of six: five amounts are returned in document
\* order, fewer than five give None
C13_FiveOrFewer ==
    (pc = "parsed" /\ call = "Swisscard_parse_invoice"
        /\ HasMarker(arg.text)) =>
        LET n == Cardinality(ChfPositions(arg.text))
            b == find_betraege_block(arg.text)
        IN  /\ n = 5 => b = [k \in 1 .. 5 |-> NthAmount(arg.text, k)]
            /\ n < 5 => b = None

\* a block of more than five amounts is truncated to its first five
C13_LongerBlockTruncated ==
    (pc = "parsed" /\ call = "Swisscard_parse_invoice"
        /\ HasMarker(arg.text)) =>
        LET n == Cardinality(ChfPositions(arg.text))
            b == find_betraege_block(arg.text)
        IN  n > 5 => b = [k \in 1 .. 5 |-> NthAmount(arg.text, k)]

\* C14: the amount emitted for a card invoice is chosen by the flag
\* USE_MINDESTZAHLUNG: off (the default), it is the fourth amount of the
\* block (new balance); on, it is the fifth (minimum payment); in
\* parse_invoice of the provider as in the scanner scripts.
C14_FlagSelectsAmount ==
    LET b      == find_betraege_block(arg.text)
        chosen == IF arg.USE_MINDESTZAHLUNG THEN b[5] ELSE b[4]
    IN  /\ (pc = "parsed" /\ call = "Swisscard_parse_invoice" /\ b # None)
              => ret.amount = OrZero(swisscard_normalize_amount(chosen))
        /\ (pc = "scanned" /\ ret # None) =>
              /\ ret[2] = chosen
              /\ ret[3] = NumOrEmpty(swisscard_normalize_amount(chosen))

\* C14 for the scanner scripts alone
C14_ScannersFollowFlag ==
    (pc = "scanned" /\ ret # None) =>
        LET b      == find_betraege_block(arg.text)
            chosen == IF arg.USE_MINDESTZAHLUNG THEN b[5] ELSE b[4]
        IN  /\ ret[2] = chosen
            /\ ret[3] = NumOrEmpty(swisscard_normalize_amount(chosen))
            /\ ret[4] = IF arg.USE_MINDESTZAHLUNG THEN "Mindestzahlung"
                        ELSE "Neuer Saldo"

\* the provider emits the fourth amount whatever the flag
C14_ProviderEmitsNewBalance ==
    (pc = "parsed" /\ call = "Swisscard_parse_invoice"
        /\ find_betraege_block(arg.text) # None) =>
        ret.amount
           = OrZero(swisscard_normalize_amount(find_betraege_block(arg.text)[4]))

\* the line of the summary total, of the eBill total and of the payment slip
SummaryLine == <<"R", "e", "c", "h", "n", "u", "n", "g", "s", "t", "o", "t",
    "a", "l", " ", "i", "n", " ", "C", "H", "F", " ", "i", "n", "k", "l",
    ".", " ", "M", "W", "S", "T", " ", "1", "1", ".", "7", "0">>

EBillLine == <<"R", "e", "c", "h", "n", "u", "n", "g", "s", "b", "e", "t",
    "r", "a", "g", " ", "i", "n", "k", "l", ".", " ", "M", "W", "S", "T",
    " ", "C", "H", "F", " ", "2", "2", ".", "5", "0">>

SlipLine == <<"W", "U+00E4", "h", "r", "u", "n", "g", " ", "C", "H", "F",
    " ", "B", "e", "t", "r", "a", "g", " ", "3", "3", ".", "0", "0">>

\* the line l is among the lines of t
HasLine(t, l) == \E i \in DOMAIN splitlines(t) : splitlines(t)[i] = l

\* the amount the label order asks for: the summary total if the text has
\* one, else the eBill total, else the amount of the payment slip
AmountByLabelOrder(t) ==
    IF HasLine(t, SummaryLine) THEN <<"1", "1", ".", "7", "0">>
    ELSE IF HasLine(t, EBillLine) THEN <<"2", "2", ".", "5", "0">>
    ELSE IF HasLine(t, SlipLine) THEN <<"3", "3", ".", "0", "0">>
    ELSE None

IsDateLine(l) == Len(l) >= 5 /\ SubSeq(l, 1, 5) = <<"D", "a", "t", "u", "m">>

NotDateLine(l) == ~IsDateLine(l)

\* t without its date lines, and its date lines alone
WithoutDateLines(t) == JoinLines(SelectSeq(splitlines(t), NotDateLine))

DateLinesOnly(t) == JoinLines(SelectSeq(splitlines(t), IsDateLine))

\* C15: find_amount tries the labels in a fixed order and the first label
\* that yields an amount wins: the summary total is returned wherever it
\* stands, also after an eBill total with another amount; the eBill total
\* only when no summary total is found. The date search is independent:
\* the date lines do not change the amount, the other lines not the date.
C15_FirstLabelWins ==
    (pc = "parsed" /\ call = "Swisscom_parse_invoice") =>
        LET e == AmountByLabelOrder(arg.text)
        IN  /\ find_amount(arg.text) = e
            /\ ret.amount = IF e = None THEN Float(0, 0)
                            ELSE OrZero(normalize_amount_for_number(e))
            /\ ret.amount
                 = Swisscom_parse_invoice(WithoutDateLines(arg.text),
                                          arg.filename).amount
            /\ ret.date
                 = Swisscom_parse_invoice(DateLinesOnly(arg.text),
                                          arg.filename).date

\* an eBill total stands before the summary total and a date is found: the
\* summary total is the amount
C15_Witness ==
    /\ pc = "parsed"
    /\ call = "Swisscom_parse_invoice"
    /\ \E i, j \in DOMAIN splitlines(arg.text) :
          /\ i < j
          /\ splitlines(arg.text)[i] = EBillLine
          /\ splitlines(arg.text)[j] = SummaryLine
    /\ ret.amount = Float(117, 1)
    /\ ret.date = <<"0", "6", ".", "1", "1", ".", "2", "0", "2", "5">>

\* the DD.MM.YYYY-shaped substrings of t
DateShaped(t) == {SubSeq(t, i, i + 9) : i \in {j \in 1 .. Len(t) :
    DateShapeAt(t, j)}}

\* those that stand between word boundaries: neither preceded nor followed
\* by a letter, a digit or an underscore
DelimitedDates(t) ==
    {SubSeq(t, i, i + 9) : i \in {j \in 1 .. Len(t) :
        /\ DateShapeAt(t, j)
        /\ j = 1 \/ t[j - 1] \notin WordChars
        /\ j + 9 = Len(t) \/ t[j + 10] \notin WordChars}}

\* a <= b in lexicographic order, for strings of one length
LexLeq(a, b) ==
    \/ a = b
    \/ \E k \in DOMAIN a :
          /\ \A j \in 1 .. k - 1 : a[j] = b[j]
          /\ Ord(a[k]) < Ord(b[k])

\* from and to are the least and the greatest member of S in lexicographic
\* order, both empty when S is empty
IsLexPeriod(S, from, to) ==
    IF S = {} THEN from = <<>> /\ to = <<>>
    ELSE /\ from \in S
         /\ to \in S
         /\ LexLeq(from, to)
         /\ \A d \in S : LexLeq(from, d) /\ LexLeq(d, to)

ChronKey(d) ==
    int(SubSeq(d, 7, 10)) * 10000 + int(SubSeq(d, 4, 5)) * 100
        + int(SubSeq(d, 1, 2))

\* C17: for every set of zero-padded DD.MM.YYYY dates found in a statement
\* the period (from_date, to_date) is the chronologically earliest and the
\* chronologically latest of those dates.
C17_PeriodIsChronological ==
    (pc = "parsed" /\ call = "SZKB_parse_invoice") =>
        LET S == DelimitedDates(arg.text)
        IN  S # {} =>
              /\ \A d \in S : ChronKey(ret.from_date) <= ChronKey(d)
              /\ \A d \in S : ChronKey(d) <= ChronKey(ret.to_date)

\* the period is chronological when the dates found agree in month and year
C17_ChronologicalWithinOneMonth ==
    (pc = "parsed" /\ call = "SZKB_parse_invoice") =>
        LET S == DelimitedDates(arg.text)
        IN  (S # {} /\ \A d, e \in S : SubSeq(d, 3, 10) = SubSeq(e, 3, 10))
              => /\ \A d \in S : ChronKey(ret.from_date) <= ChronKey(d)
                 /\ \A d \in S : ChronKey(d) <= ChronKey(ret.to_date)

\* the line carries the keyword 'Schlusssaldo', the token 'Saldo', in any
\* case
IsKeywordLine(l) == OccursIgnoringCase(<<"S", "c", "h", "l", "u", "s", "s",
    "s", "a", "l", "d", "o">>, l)

IsSaldoLine(l) == OccursIgnoringCase(<<"S", "a", "l", "d", "o">>, l)

\* the amount that stands on a line of a statement after its balance word,
\* None for a line without one
AmountOnLine(l) ==
    IF l = <<"S", "c", "h", "l", "u", "s", "s", "s", "a", "l", "d", "o",
        " ", "C", "H", "F", " ", "1", "0", ".", "0", "0">> THEN <<"1", "0",
        ".", "0", "0">>
    ELSE IF l = <<"S", "C", "H", "L", "U", "S", "S", "S", "A", "L", "D",
        "O", " ", "-", "2", "0", ".", "5", "0">> THEN <<"-", "2", "0", ".",
        "5", "0">>
    ELSE IF l = <<"S", "a", "l", "d", "o", " ", "3", "0", ".", "0",
        "0">> THEN <<"3", "0", ".", "0", "0">>
    ELSE IF l = <<"1", "5", ".", "1", "2", ".", "2", "0", "2", "4", " ",
        "S", "a", "l", "d", "o", "v", "o", "r", "t", "r", "a", "g", " ",
        "5", ".", "0", "0">> THEN <<"5", ".", "0", "0">>
    ELSE None

\* the number of the line the balance is to be taken from: the last keyword
\* line, without any the last line with the generic token, 0 without both
SelectedLine(t) ==
    LET ls == splitlines(t)
        K  == {i \in DOMAIN ls : IsKeywordLine(ls[i])}
        G  == {i \in DOMAIN ls : IsSaldoLine(ls[i])}
    IN  IF K # {} THEN Max(K) ELSE IF G # {} THEN Max(G) ELSE 0

\* C18: find_saldo takes the amount from the last line, in document order,
\* that contains 'Schlusssaldo' in any case; the lines with the generic
\* token 'Saldo' are used only when no line contains the keyword, and then
\* the last of them; only the selected line is searched, and when it
\* carries no amount the result is None whatever earlier lines carry.
C18_LastMatchingLineWins ==
    (pc = "parsed" /\ call = "SZKB_parse_invoice") =>
        LET sel == SelectedLine(arg.text)
            e   == IF sel = 0 THEN None
                   ELSE AmountOnLine(splitlines(arg.text)[sel])
        IN  /\ find_saldo(arg.text) = e
            /\ ret.saldo = IF e = None THEN Float(0, 0)
                           ELSE OrZero(szkb_normalize_amount(e))

\* two keyword lines with different amounts, then a generic line: the
\* balance is the one of the second keyword line
C18_Witness ==
    /\ pc = "parsed"
    /\ call = "SZKB_parse_invoice"
    /\ splitlines(arg.text)
         = << <<"S", "c", "h", "l", "u", "s", "s", "s", "a", "l", "d", "o",
             " ", "C", "H", "F", " ", "1", "0", ".", "0", "0">>, <<"S", "C",
             "H", "L", "U", "S", "S", "S", "A", "L", "D", "O", " ", "-",
             "2", "0", ".", "5", "0">>,
              <<"S", "a", "l", "d", "o", " ", "3", "0", ".", "0", "0">> >>
    /\ ret.saldo = Neg(Float(205, 1))

\* a keyword line without an amount after one with an amount: no balance
C18_NoFallBackToEarlierLines ==
    (/\ pc = "parsed"
     /\ call = "SZKB_parse_invoice"
     /\ SelectedLine(arg.text) > 0
     /\ AmountOnLine(splitlines(arg.text)[SelectedLine(arg.text)]) = None)
        => ret.saldo = Float(0, 0)

-----------------------------------------------------------------------------
(* strom_table_verify.py: the billed months and the recomputed cost
   components of one row of the table *)

\* datetime(y, m, d)
Datetime(y, m, d) == <<"datetime", y, m, d>>

\* the number of days of month m of year y
DaysInMonth(y, m) ==
    IF m = 2
    THEN IF (y % 4 = 0 /\ y % 100 # 0) \/ y % 400 = 0 THEN 29 ELSE 28
    ELSE IF m \in {4, 6, 9, 11} THEN 30 ELSE 31

\* the length of the %d or %m field read at position p of t (two digits
\* that make a number of 1 .. maxv, else one digit other than 0), 0 for none
FieldLen(t, p, maxv) ==
    IF /\ p + 1 <= Len(t)
       /\ t[p] \in Digits
       /\ t[p + 1] \in Digits
       /\ int(SubSeq(t, p, p + 1)) \in 1 .. maxv
    THEN 2
    ELSE IF p <= Len(t) /\ t[p] \in Digits \ {"0"} THEN 1
    ELSE 0

\* datetime.strptime(t, "%d.%m.%Y") for ylen = 4 and
\* datetime.strptime(t, "%d.%m.%y") for ylen = 2
strptime(t, ylen) ==
    LET nd == FieldLen(t, 1, 31)
        pm == nd + 2
        nm == FieldLen(t, pm, 12)
        ys == SubSeq(t, pm + nm + 1, Len(t))
        d  == int(SubSeq(t, 1, nd))
        m  == int(SubSeq(t, pm, pm + nm - 1))
        y  == IF ylen = 4 THEN int(ys)
              ELSE IF int(ys) < 69 THEN 2000 + int(ys)
              ELSE 1900 + int(ys)
    IN  IF nd = 0 \/ nd + 1 > Len(t) \/ t[nd + 1] # "." THEN ValueError
        ELSE IF nm = 0 \/ pm + nm > Len(t) \/ t[pm + nm] # "."
        THEN ValueError
        ELSE IF Len(ys) # ylen \/ ~AllDigits(ys) THEN ValueError
        ELSE IF y < 1 \/ d > DaysInMonth(y, m) THEN ValueError
        ELSE Datetime(y, m, d)

\* str(v) of a cell value: a str is itself, None and the float nan are
\* written out
StrOf(v) ==
    IF v = None THEN <<"N", "o", "n", "e">>
    ELSE IF v = FNaN THEN <<"n", "a", "n">>
    ELSE v

\* parse_dmy, for a str argument or None
parse_dmy(s) ==
    LET t == strip(StrOf(s))
    IN  IF s = None \/ s = <<>> THEN None
        ELSE IF t = <<>> THEN None
        ELSE IF strptime(t, 4) # ValueError THEN strptime(t, 4)
        ELSE IF strptime(t, 2) # ValueError THEN strptime(t, 2)
        ELSE None

\* months_between without the subtraction for an end day before the start
\* day
months_between_no_rollback(d1, d2) ==
    IF d1 = None \/ d2 = None THEN Float(0, 0)
    ELSE LET m == (d2[2] - d1[2]) * 12 + (d2[3] - d1[3])
         IN  Float(IF m > 0 THEN m ELSE 0, 0)

\* months_between
months_between(d1, d2) ==
    IF d1 = None \/ d2 = None THEN Float(0, 0)
    ELSE LET m0 == (d2[2] - d1[2]) * 12 + (d2[3] - d1[3])
             m  == IF d2[4] < d1[4] THEN m0 - 1 ELSE m0
         IN  Float(IF m > 0 THEN m ELSE 0, 0)

\* yn_flag, for a str argument
yn_flag(v) ==
    lower(strip(StrOf(v))) \in { <<"t", "r", "u", "e">>, <<"1">>,
                          <<"y", "e", "s">>, <<"j", "a">> }

\* the float is neither an infinity nor not-a-number
IsFinite(a) == Len(a) = 3

\* a * b, for the pair p of the values a and b
FMulPair(p) ==
    LET a      == p[1]
        b      == p[2]
        pos(x) == IF IsFinite(x) THEN x[2] >= 0 ELSE x = FInf
    IN  IF a = FNaN \/ b = FNaN THEN FNaN
        ELSE IF IsFinite(a) /\ IsFinite(b)
        THEN Float(a[2] * b[2], a[3] + b[3])
        ELSE IF (IsFinite(a) /\ a[2] = 0) \/ (IsFinite(b) /\ b[2] = 0)
        THEN FNaN
        ELSE IF pos(a) = pos(b) THEN FInf ELSE FNegInf

\* a * b; both operands are evaluated once
FMul(a, b) == CHOOSE r \in {FMulPair(p) : p \in {<<a, b>>}} : TRUE

\* a + b, for the pair p of the values a and b
FAddPair(p) ==
    LET a == p[1]
        b == p[2]
    IN  IF a = FNaN \/ b = FNaN THEN FNaN
        ELSE IF IsFinite(a) /\ IsFinite(b)
        THEN LET k == IF a[3] > b[3] THEN a[3] ELSE b[3]
             IN  Float(a[2] * Pow10(k - a[3]) + b[2] * Pow10(k - b[3]), k)
        ELSE IF ~IsFinite(a) /\ ~IsFinite(b)
        THEN IF a = b THEN a ELSE FNaN
        ELSE IF IsFinite(a) THEN b
        ELSE a

\* a + b; both operands are evaluated once
FAdd(a, b) == CHOOSE r \in {FAddPair(p) : p \in {<<a, b>>}} : TRUE

\* -a
FNeg(a) ==
    LET Minus(v) == IF v = FNaN THEN FNaN
                    ELSE IF v = FInf THEN FNegInf
                    ELSE IF v = FNegInf THEN FInf
                    ELSE Neg(v)
    IN  CHOOSE r \in {Minus(v) : v \in {a}} : TRUE

\* round2: float(f"{x:.2f}"), the decimal to two places that is nearest to
\* x, the even one of two that are equally near
round2(x) ==
    LET Rounded(v) ==
            IF ~IsFinite(v) \/ v[3] <= 2 THEN v
            ELSE LET a == IF v[2] < 0 THEN 0 - v[2] ELSE v[2]
                     p == Pow10(v[3] - 2)
                     q == a \div p
                     r == a % p
                     u == IF 2 * r > p \/ (2 * r = p /\ q % 2 = 1)
                          THEN q + 1
                          ELSE q
                 IN  Float(IF v[2] < 0 THEN 0 - u ELSE u, 2)
    IN  CHOOSE r \in {Rounded(v) : v \in {x}} : TRUE

\* the values recompute_row reads from the row, whose get() gives a str or
\* None: the consumption, the rates, the flag, the months and the invoiced
\* total
RowValues(row) ==
    [ht_kwh  |-> num(row.HT_Bezug_kWh),
     nt_kwh  |-> num(IF row.NT_Bezug_KWh = None \/ row.NT_Bezug_KWh = <<>>
                     THEN row.NT_Bezug_kWh
                     ELSE row.NT_Bezug_KWh),
     ht_e    |-> num(row.HT_Energie_Ansatz_CHF_kWh),
     nt_e    |-> num(row.NT_Energie_Ansatz_CHF_kWh),
     ht_n    |-> num(row.HT_Netznutzung_Ansatz_CHF_kWh),
     nt_n    |-> num(row.NT_Netznutzung_Ansatz_CHF_kWh),
     sysd    |-> num(row.Systemdienstleistungen_Ansatz_CHF),
     kev     |-> num(row.KEV_Ansatz_CHF),
     gem     |-> num(row.Abgabe_Gemeinde_Ansatz_CHF),
     res     |-> num(row.Stromreserve_Ansatz_CHF),
     gp_ans  |-> num(row.Grundpreis_Messstelle_Ansatz_CHF),
     gp_verr |-> yn_flag(row.Grundpreis_verrechnet),
     monate  |-> months_between(parse_dmy(row.Zeitraum_von),
                                parse_dmy(row.Zeitraum_bis)),
     mwst_satz      |-> num(row.MWST_Satz_prozent),
     total_rechnung |-> num(row.Total_Objekt_CHF)]

\* ---- binary floating point at the tolerance boundary ----
\* A Python float is an IEEE double: the value c/100 of an amount of c cents
\* is stored as the nearest m / 2^k with 2^52 <= m < 2^53.

RECURSIVE Pow2(_)
Pow2(k) == IF k = 0 THEN 1 ELSE 2 * Pow2(k - 1)

RECURSIVE Pow2Mod100(_)
Pow2Mod100(k) == IF k = 0 THEN 1 ELSE (2 * Pow2Mod100(k - 1)) % 100

\* the amount of a float with at most two decimals, in cents
Cents(x) == x[2] * Pow10(2 - x[3])

\* the scale k of the double nearest to c/100, c > 0
FloatScale(c) ==
    52 - (CHOOSE e \in -7 .. 16 :
              /\ 100 * Pow2(e + 7) <= c * Pow2(7)
              /\ c * Pow2(7) < 100 * Pow2(e + 8))

\* float("c/100") - c/100 in units of 1 / (100 * 2^59): the remainder of
\* c * 2^k by 100 decides whether the mantissa is rounded down or up
FloatErr(c) ==
    IF c = 0 THEN 0
    ELSE LET a   == IF c < 0 THEN 0 - c ELSE c
             k   == FloatScale(a)
             r   == ((a % 100) * Pow2Mod100(k)) % 100
             rho == IF r < 50 THEN 0 - r ELSE 100 - r
             err == rho * Pow2(59 - k)
         IN  IF c < 0 THEN 0 - err ELSE err

\* abs(a - b) <= 0.05 for floats a, b of at most two decimals: the difference
\* of the two doubles is compared with the double 0.05. When the amounts
\* differ by 5 cents exactly, the representation errors decide: the
\* difference is rounded to the doubles' grid between 1/32 and 1/16 (400
\* units wide) and must not exceed float("0.05"), whose mantissa is even.
WithinTolerance(a, b) ==
    /\ IsFinite(a)
    /\ IsFinite(b)
    /\ LET ca == Cents(a)
           cb == Cents(b)
           hi == IF ca < cb THEN cb ELSE ca
           lo == IF ca < cb THEN ca ELSE cb
       IN  \/ hi - lo < 5
           \/ /\ hi - lo = 5
              /\ FloatErr(hi) - FloatErr(lo) <= FloatErr(5) + 200

\* the computation of recompute_row on the values v read from the row
RecomputeValues(v) ==
    LET tot_kwh == FAdd(v.ht_kwh, v.nt_kwh)
        exkl_grundpreis ==
            FMul(FMul(v.gp_ans, v.monate),
                 IF v.gp_verr THEN Float(1, 0) ELSE Float(0, 0))
        \* num(...) / 100.0
        mwst_rate == FMul(v.mwst_satz, Float(1, 2))
        exkl_energie     == FAdd(FMul(v.ht_kwh, v.ht_e),
                                 FMul(v.nt_kwh, v.nt_e))
        exkl_netznutzung == FAdd(FMul(v.ht_kwh, v.ht_n),
                                 FMul(v.nt_kwh, v.nt_n))
        exkl_abgaben     ==
            FMul(tot_kwh, FAdd(FAdd(FAdd(v.sysd, v.kev), v.gem), v.res))
        exkl_summe  == FAdd(FAdd(FAdd(exkl_energie, exkl_netznutzung),
                                 exkl_abgaben), exkl_grundpreis)
        mwst_betrag == FMul(exkl_summe, mwst_rate)
        inkl_summe  == FAdd(exkl_summe, mwst_betrag)
        delta == FAdd(round2(inkl_summe), FNeg(round2(v.total_rechnung)))
        \* abs(delta) <= 0.05, delta the difference of two doubles
        ok    == \E p \in {<<round2(inkl_summe),
                              round2(v.total_rechnung)>>} :
                     WithinTolerance(p[1], p[2])
    IN  [Monate_Grundpreis     |-> v.monate,
         Exkl_Energie_CHF      |-> round2(exkl_energie),
         Exkl_Netznutzung_CHF  |-> round2(exkl_netznutzung),
         Exkl_Abgaben_CHF      |-> round2(exkl_abgaben),
         Exkl_Grundpreis_CHF   |-> round2(exkl_grundpreis),
         Exkl_Summe_CHF        |-> round2(exkl_summe),
         MWST_Satz_prozent     |-> round2(FMul(mwst_rate, Float(100, 0))),
         MWST_Betrag_CHF       |-> round2(mwst_betrag),
         Recalc_Total_Inkl_CHF |-> round2(inkl_summe),
         Total_Objekt_CHF      |-> round2(v.total_rechnung),
         Delta_CHF             |-> round2(delta),
         OK                    |-> ok]

\* recompute_row: every value is read from the row once
recompute_row(row) ==
    CHOOSE r \in {RecomputeValues(v) : v \in {RowValues(row)}} : TRUE

\* the years of the periods: MaxYears of them
MaxYears == 2

Years == 2024 .. (2023 + MaxYears)

\* the first, the middle and the last day of every month of those years
Datetimes ==
    {Datetime(y, m, d) : <<y, m, d>> \in
        {x \in Years \X (1 .. 12) \X {1, 15, 31} :
            x[3] <= DaysInMonth(x[1], x[2])}}

\* rows of the table: consumption under both spellings of the NT key,
\* rates, a fixed fee that is a number, negative or infinite, the flag in
\* several spellings, periods in both year formats and without start
Rows ==
    [HT_Bezug_kWh                      : {<<"1", "0", "0">>, <<"3">>},
     NT_Bezug_KWh                      : {None, <<"5", "0">>},
     NT_Bezug_kWh                      : {None, <<"7">>},
     HT_Energie_Ansatz_CHF_kWh         : {<<"0", ".", "2", "5">>},
     NT_Energie_Ansatz_CHF_kWh         : {<<"0", ".", "1", "2",
         "5">>, <<"0", ".", "2">>},
     HT_Netznutzung_Ansatz_CHF_kWh     : {<<"0", ".", "1">>},
     NT_Netznutzung_Ansatz_CHF_kWh     : {<<"0", ".", "0", "5">>},
     Systemdienstleistungen_Ansatz_CHF : {<<"0", ".", "0", "0", "5">>},
     KEV_Ansatz_CHF                    : {<<"0", ".", "0", "2", "3">>},
     Abgabe_Gemeinde_Ansatz_CHF        : {None, <<"0", ".", "0", "1">>},
     Stromreserve_Ansatz_CHF           : {<<"0", ".", "0", "0", "1", "2">>},
     Grundpreis_Messstelle_Ansatz_CHF  : {<<"5", ".", "5", "0">>, <<"-",
         "2">>, <<"i", "n", "f">>},
     Grundpreis_verrechnet             : {<<"j", "a">>, <<"n", "e", "i",
         "n">>, <<"1">>, <<" ", "Y", "e", "s", " ">>},
     Zeitraum_von                      : {<<"0", "1", ".", "0", "7", ".",
         "2", "0", "2", "5">>, <<"1", "5", ".", "0", "7", ".", "2", "0",
         "2", "5">>, <<>>},
     Zeitraum_bis                      : {<<"0", "1", ".", "1", "0", ".",
         "2", "0", "2", "5">>, <<"0", "1", ".", "0", "6", ".", "2", "0",
         "2", "5">>, <<"1", ".", "1", "0", ".", "2", "5">>},
     MWST_Satz_prozent                 : {<<"8", ".", "1">>},
     Total_Objekt_CHF                  : {<<"0">>}]

\* rows whose invoice total lies around the recomputed total: the same
\* rates throughout, the totals 4, 5 and 6 cents off 1.23, 2.77 and 42.07
ToleranceRows ==
    [HT_Bezug_kWh                      : {<<"1", "0", "0">>, <<"3">>},
     NT_Bezug_KWh                      : {None},
     NT_Bezug_kWh                      : {None, <<"7">>},
     HT_Energie_Ansatz_CHF_kWh         : {<<"0", ".", "2", "5">>},
     NT_Energie_Ansatz_CHF_kWh         : {<<"0", ".", "1", "2", "5">>},
     HT_Netznutzung_Ansatz_CHF_kWh     : {<<"0", ".", "1">>},
     NT_Netznutzung_Ansatz_CHF_kWh     : {<<"0", ".", "0", "5">>},
     Systemdienstleistungen_Ansatz_CHF : {<<"0", ".", "0", "0", "5">>},
     KEV_Ansatz_CHF                    : {<<"0", ".", "0", "2", "3">>},
     Abgabe_Gemeinde_Ansatz_CHF        : {None},
     Stromreserve_Ansatz_CHF           : {<<"0", ".", "0", "0", "1", "2">>},
     Grundpreis_Messstelle_Ansatz_CHF  : {<<"5", ".", "5", "0">>},
     Grundpreis_verrechnet             : {<<"n", "e", "i", "n">>},
     Zeitraum_von                      : {<<"0", "1", ".", "0", "7", ".", "2", "0", "2", "5">>},
     Zeitraum_bis                      : {<<"0", "1", ".", "1", "0", ".", "2", "0", "2", "5">>},
     MWST_Satz_prozent                 : {<<"8", ".", "1">>},
     Total_Objekt_CHF                  :
         {<<"1", ".", "1", "7">>, <<"1", ".", "1", "8">>, <<"1", ".", "1", "9">>, <<"1", ".", "2", "3">>, <<"1", ".", "2", "7">>, <<"1", ".", "2", "8">>,
          <<"1", ".", "2", "9">>, <<"2", ".", "7", "1">>, <<"2", ".", "7", "2">>, <<"2", ".", "7", "3">>, <<"2", ".", "8", "1">>, <<"2", ".", "8", "2">>,
          <<"2", ".", "8", "3">>, <<"4", "2", ".", "0", "1">>, <<"4", "2", ".", "0", "2">>, <<"4", "2", ".", "1", "2">>, <<"4", "2", ".", "1", "3">>}]

\* a complete row
BaseRow ==
    [HT_Bezug_kWh                      |-> <<"1", "0", "0">>,
     NT_Bezug_KWh                      |-> None,
     NT_Bezug_kWh                      |-> <<"5", "0">>,
     HT_Energie_Ansatz_CHF_kWh         |-> <<"0", ".", "2", "5">>,
     NT_Energie_Ansatz_CHF_kWh         |-> <<"0", ".", "2">>,
     HT_Netznutzung_Ansatz_CHF_kWh     |-> <<"0", ".", "1">>,
     NT_Netznutzung_Ansatz_CHF_kWh     |-> <<"0", ".", "0", "5">>,
     Systemdienstleistungen_Ansatz_CHF |-> <<"0", ".", "0", "0", "5">>,
     KEV_Ansatz_CHF                    |-> <<"0", ".", "0", "2", "3">>,
     Abgabe_Gemeinde_Ansatz_CHF        |-> <<"0", ".", "0", "1">>,
     Stromreserve_Ansatz_CHF           |-> <<"0", ".", "0", "0", "1", "2">>,
     Grundpreis_Messstelle_Ansatz_CHF  |-> <<"5", ".", "5", "0">>,
     Grundpreis_verrechnet             |-> <<"j", "a">>,
     Zeitraum_von                      |-> <<"0", "1", ".", "0", "7", ".", "2", "0", "2", "5">>,
     Zeitraum_bis                      |-> <<"0", "1", ".", "1", "0", ".", "2", "0", "2", "5">>,
     MWST_Satz_prozent                 |-> <<"8", ".", "1">>,
     Total_Objekt_CHF                  |-> <<"7", "5", ".", "5", "4">>]

\* what a cell holds when its value is missing, empty, the text 'None', the
\* float nan of an empty CSV cell, or text that is neither number nor date
Damages == {None, <<>>, <<"N", "o", "n", "e">>, FNaN, <<"a", "b", "c">>, <<"3", "1", ".", "0", "2", ".", "2", "0", "2", "5">>}

\* the fields damaged together in every combination
DamagedTogether ==
    {"HT_Bezug_kWh", "HT_Energie_Ansatz_CHF_kWh", "Grundpreis_verrechnet",
     "Zeitraum_von", "Zeitraum_bis", "MWST_Satz_prozent",
     "Total_Objekt_CHF"}

DamagedRow(S, d) ==
    [f \in DOMAIN BaseRow |-> IF f \in S THEN d ELSE BaseRow[f]]

\* the complete row with a set of its fields damaged: every combination of
\* DamagedTogether, every single field, and all fields at once
DamagedRows ==
    {DamagedRow(S, d) :
        S \in (SUBSET DamagedTogether) \cup {{f} : f \in DOMAIN BaseRow}
                  \cup {DOMAIN BaseRow},
        d \in Damages}

InitVerify ==
    /\ call = "-"
    /\ ret = None
    /\ SortIdle
    /\ \/ /\ pc = "months"
          /\ arg \in [d1 : Datetimes \cup {None}, d2 : Datetimes \cup {None}]
       \/ /\ pc = "recompute"
          /\ arg \in [row : Rows \cup ToleranceRows \cup DamagedRows]

Call_months_between ==
    /\ pc = "months"
    /\ call' = "months_between"
    /\ ret' = months_between(arg.d1, arg.d2)
    /\ pc' = "returned"
    /\ UNCHANGED <<arg, sortVars>>

Call_recompute_row ==
    /\ pc = "recompute"
    /\ call' = "recompute_row"
    /\ ret' = recompute_row(arg.row)
    /\ pc' = "returned"
    /\ UNCHANGED <<arg, sortVars>>

NextVerify ==
    \/ Call_months_between
    \/ Call_recompute_row

SpecVerify == InitVerify /\ [][NextVerify]_vars

-----------------------------------------------------------------------------
(* Claims on the billed months and the cost components *)

\* max(0, (end.year - start.year) * 12 + (end.month - start.month)
\*        - (1 if end.day < start.day else 0))
WholeMonths(start, end) ==
    LET m == (end[2] - start[2]) * 12 + (end[3] - start[3])
                 - (IF end[4] < start[4] THEN 1 ELSE 0)
    IN  Max({0, m})

\* C19: months_between(start, end) is max(0, (end.year - start.year) * 12
\* + (end.month - start.month) - (1 if end.day < start.day else 0)) for
\* every pair of dates and 0 when a date is missing; 01.07.2025 to
\* 01.10.2025 gives 3, 15.07.2025 to 01.10.2025 gives 2; the result is never
\* negative, also when the end precedes the start.
C19_MonthsBetween ==
    (pc = "returned" /\ call = "months_between") =>
        /\ (arg.d1 = None \/ arg.d2 = None) => ret = Float(0, 0)
        /\ (arg.d1 # None /\ arg.d2 # None)
              => ret = Float(WholeMonths(arg.d1, arg.d2), 0)
        /\ (arg.d1 = Datetime(2025, 7, 1) /\ arg.d2 = Datetime(2025, 10, 1))
              => ret = Float(3, 0)
        /\ (arg.d1 = Datetime(2025, 7, 15) /\ arg.d2 = Datetime(2025, 10, 1))
              => ret = Float(2, 0)
        /\ ret[2] >= 0

\* the period from 15.07.2025 to 01.10.2025: two whole months
C19_Witness ==
    /\ pc = "returned"
    /\ call = "months_between"
    /\ arg.d1 = Datetime(2025, 7, 15)
    /\ arg.d2 = Datetime(2025, 10, 1)
    /\ ret = Float(2, 0)

\* the end precedes the start: no month
C19_EndBeforeStart ==
    (/\ pc = "returned"
     /\ call = "months_between"
     /\ arg.d1 # None
     /\ arg.d2 # None
     /\ arg.d2[2] * 10000 + arg.d2[3] * 100 + arg.d2[4]
           < arg.d1[2] * 10000 + arg.d1[3] * 100 + arg.d1[4])
        => ret = Float(0, 0)

\* the spellings of the flag that mean billed, among those of the rows
BilledSpellings == {<<"j", "a">>, <<"1">>, <<" ", "Y", "e", "s", " ">>}

\* the NT consumption of a row: under the key NT_Bezug_KWh, without it
\* under the key NT_Bezug_kWh
NtConsumption(row) ==
    IF row.NT_Bezug_KWh # None THEN num(row.NT_Bezug_KWh)
    ELSE num(row.NT_Bezug_kWh)

\* the four cost components of the row as the rates and the consumption
\* give them, the fixed fee for the given number of months
ComponentsAsStated(row, months) ==
    LET ht == num(row.HT_Bezug_kWh)
        nt == NtConsumption(row)
    IN  [energy  |-> FAdd(FMul(ht, num(row.HT_Energie_Ansatz_CHF_kWh)),
                          FMul(nt, num(row.NT_Energie_Ansatz_CHF_kWh))),
         network |-> FAdd(FMul(ht, num(row.HT_Netznutzung_Ansatz_CHF_kWh)),
                          FMul(nt, num(row.NT_Netznutzung_Ansatz_CHF_kWh))),
         levies  |-> FMul(FAdd(ht, nt),
                          FAdd(num(row.Systemdienstleistungen_Ansatz_CHF),
                          FAdd(num(row.KEV_Ansatz_CHF),
                          FAdd(num(row.Abgabe_Gemeinde_Ansatz_CHF),
                               num(row.Stromreserve_Ansatz_CHF))))),
         fee     |-> IF row.Grundpreis_verrechnet \in BilledSpellings
                     THEN FMul(num(row.Grundpreis_Messstelle_Ansatz_CHF),
                               months)
                     ELSE Float(0, 0)]

\* the row's result carries the stated components, to two decimals
ResultAsStated(row, res) ==
    LET c == ComponentsAsStated(row, res.Monate_Grundpreis)
    IN  /\ res.Exkl_Energie_CHF = round2(c.energy)
        /\ res.Exkl_Netznutzung_CHF = round2(c.network)
        /\ res.Exkl_Abgaben_CHF = round2(c.levies)
        /\ res.Exkl_Grundpreis_CHF = round2(c.fee)

\* C20: recompute_row computes energy = HT_kWh * HT_energy_rate + NT_kWh *
\* NT_energy_rate, network = HT_kWh * HT_network_rate + NT_kWh *
\* NT_network_rate, levies = (HT_kWh + NT_kWh) * (sum of the four levy
\* rates), and the fixed fee = meter_fee_rate * months_billed when the
\* billed flag is set and 0 when it is not set, whatever the rate and the
\* period.
C20_CostComponents ==
    (pc = "returned" /\ call = "recompute_row") =>
        ResultAsStated(arg.row, ret)

\* C20 for the rows whose meter fee rate is a finite number
C20_FiniteFeeRate ==
    (/\ pc = "returned"
     /\ call = "recompute_row"
     /\ IsFinite(num(arg.row.Grundpreis_Messstelle_Ansatz_CHF)))
        => ResultAsStated(arg.row, ret)

\* an infinite rate that is not billed gives a fee that is no number
C20_UnbilledInfiniteRate ==
    (/\ pc = "returned"
     /\ call = "recompute_row"
     /\ num(arg.row.Grundpreis_Messstelle_Ansatz_CHF) = FInf
     /\ arg.row.Grundpreis_verrechnet \notin BilledSpellings)
        => ret.Exkl_Grundpreis_CHF = FNaN /\ ret.Exkl_Summe_CHF = FNaN

\* the VAT rate of the row as a fraction
VatRate(row) == FMul(num(row.MWST_Satz_prozent), Float(1, 2))

\* C21: every monetary value of the result is rounded to two decimals where
\* it is computed, each component before the sum: Exkl_Summe_CHF is the sum
\* of the four reported components, MWST_Betrag_CHF is the reported subtotal
\* times the VAT rate, rounded to two decimals, and Recalc_Total_Inkl_CHF is
\* the reported subtotal plus the reported VAT amount.
C21_RoundedWhereComputed ==
    (pc = "returned" /\ call = "recompute_row") =>
        /\ ret.Exkl_Summe_CHF
             = FAdd(FAdd(FAdd(ret.Exkl_Energie_CHF, ret.Exkl_Netznutzung_CHF),
                         ret.Exkl_Abgaben_CHF), ret.Exkl_Grundpreis_CHF)
        /\ ret.MWST_Betrag_CHF
             = round2(FMul(ret.Exkl_Summe_CHF, VatRate(arg.row)))
        /\ ret.Recalc_Total_Inkl_CHF
             = FAdd(ret.Exkl_Summe_CHF, ret.MWST_Betrag_CHF)

\* the reported subtotal is the sum of the four reported components
C21_SubtotalIsSumOfReported ==
    (pc = "returned" /\ call = "recompute_row") =>
        ret.Exkl_Summe_CHF
          = FAdd(FAdd(FAdd(ret.Exkl_Energie_CHF, ret.Exkl_Netznutzung_CHF),
                      ret.Exkl_Abgaben_CHF), ret.Exkl_Grundpreis_CHF)

\* the reported total is the reported subtotal plus the reported VAT amount
C21_TotalIsSumOfReported ==
    (pc = "returned" /\ call = "recompute_row") =>
        ret.Recalc_Total_Inkl_CHF
          = FAdd(ret.Exkl_Summe_CHF, ret.MWST_Betrag_CHF)

\* every reported amount has at most two decimals
C21_ReportedToTwoDecimals ==
    (pc = "returned" /\ call = "recompute_row") =>
        \A x \in {ret.Exkl_Energie_CHF, ret.Exkl_Netznutzung_CHF,
                  ret.Exkl_Abgaben_CHF, ret.Exkl_Grundpreis_CHF,
                  ret.Exkl_Summe_CHF, ret.MWST_Betrag_CHF,
                  ret.Recalc_Total_Inkl_CHF, ret.Delta_CHF} :
            IsFinite(x) => x[3] <= 2

\* the recomputed total minus the invoice total as reported, in cents
ReportedDifference ==
    Cents(ret.Recalc_Total_Inkl_CHF) - Cents(ret.Total_Objekt_CHF)

AmountsFinite ==
    IsFinite(ret.Recalc_Total_Inkl_CHF) /\ IsFinite(ret.Total_Objekt_CHF)

\* C22: OK is true exactly when the recomputed total and the invoice total
\* differ by at most 0.05 (a difference of exactly 0.05 is within the
\* tolerance, 0.06 is not), and Delta_CHF is the recomputed total minus the
\* invoice total, with its sign.
C22_OkIffWithinFiveCents ==
    (pc = "returned" /\ call = "recompute_row") =>
        /\ ret.OK <=> (AmountsFinite /\ ReportedDifference \in -5 .. 5)
        /\ ret.Delta_CHF = FAdd(ret.Recalc_Total_Inkl_CHF,
                                FNeg(ret.Total_Objekt_CHF))

\* Delta_CHF is always the signed difference of the two reported totals
C22_DeltaIsSignedDifference ==
    (pc = "returned" /\ call = "recompute_row") =>
        ret.Delta_CHF = FAdd(ret.Recalc_Total_Inkl_CHF,
                             FNeg(ret.Total_Objekt_CHF))

\* away from the boundary OK is as stated: true up to 0.04, false from 0.06
C22_OkAwayFromBoundary ==
    (pc = "returned" /\ call = "recompute_row") =>
        /\ (AmountsFinite /\ ReportedDifference \in -4 .. 4) => ret.OK
        /\ (AmountsFinite /\ ReportedDifference \notin -5 .. 5) => ~ret.OK
        /\ ~AmountsFinite => ~ret.OK

\* at a difference of exactly 0.05 both outcomes occur: 2.77 against 2.72 is
\* accepted
C22_BoundaryAcceptedFor272 ==
    (pc = "returned" /\ call = "recompute_row"
        /\ ret.Recalc_Total_Inkl_CHF = Float(277, 2)
        /\ ret.Total_Objekt_CHF = Float(272, 2)) => ret.OK

\* and 1.23 against 1.18 is rejected
C22_BoundaryRejectedFor118 ==
    (pc = "returned" /\ call = "recompute_row"
        /\ ret.Recalc_Total_Inkl_CHF = Float(123, 2)
        /\ ret.Total_Objekt_CHF = Float(118, 2)) => ~ret.OK

\* the columns recompute_row reads as numbers
NumericFields ==
    DOMAIN BaseRow \ {"Grundpreis_verrechnet", "Zeitraum_von", "Zeitraum_bis"}

\* the twelve keys of the result
OutputFields ==
    {"Monate_Grundpreis", "Exkl_Energie_CHF", "Exkl_Netznutzung_CHF",
     "Exkl_Abgaben_CHF", "Exkl_Grundpreis_CHF", "Exkl_Summe_CHF",
     "MWST_Satz_prozent", "MWST_Betrag_CHF", "Recalc_Total_Inkl_CHF",
     "Total_Objekt_CHF", "Delta_CHF", "OK"}

\* the row with "0" written into every damaged numeric cell; a missing or
\* empty NT_Bezug_KWh stays as it is, the other spelling of the key is read
\* in its place
Zeroed(row) ==
    [f \in DOMAIN row |->
        IF /\ f \in NumericFields
           /\ row[f] \in Damages
           /\ ~(f = "NT_Bezug_KWh" /\ row[f] \in {None, <<>>})
        THEN <<"0">>
        ELSE row[f]]

\* C23: recompute_row is total. Whatever set of fields is missing, empty,
\* 'None', nan or unparseable, it returns all twelve output fields: a
\* numeric field that cannot be read counts as 0, a period date that cannot
\* be read gives 0 months, and without a VAT rate the VAT is 0.
C23_RecomputeRowIsTotal ==
    (pc = "returned" /\ call = "recompute_row") =>
        /\ DOMAIN ret = OutputFields
        /\ ret.OK \in BOOLEAN
        /\ \A f \in OutputFields \ {"OK"} :
              IsFinite(ret[f]) \/ ret[f] \in {FInf, FNegInf, FNaN}
        /\ ret = recompute_row(Zeroed(arg.row))
        /\ (arg.row.Zeitraum_von \in Damages
               \/ arg.row.Zeitraum_bis \in Damages)
              => ret.Monate_Grundpreis = Float(0, 0)
        /\ arg.row.MWST_Satz_prozent \in Damages
              => /\ ret.MWST_Satz_prozent = Float(0, 0)
                 /\ ret.MWST_Betrag_CHF = Float(0, 0)
                 /\ ret.Recalc_Total_Inkl_CHF = ret.Exkl_Summe_CHF

\* a row with seven fields unreadable at once has been recomputed
C23_Witness ==
    /\ pc = "returned"
    /\ call = "recompute_row"
    /\ arg.row = DamagedRow(DamagedTogether, <<"a", "b", "c">>)
    /\ ret.Exkl_Summe_CHF = Float(1446, 2)
    /\ ret.Monate_Grundpreis = Float(0, 0)

\* a row with every field missing gives zeros throughout and is accepted
C23_EmptyRowGivesZeros ==
    (pc = "returned" /\ call = "recompute_row"
        /\ arg.row \in {DamagedRow(DOMAIN BaseRow, d) :
                           d \in {None, <<>>, FNaN}}) =>
        /\ \A f \in OutputFields \ {"OK"} : ret[f] = Float(0, 0)
        /\ ret.OK

-----------------------------------------------------------------------------
(* The electricity invoice scanner, old/v0/scan_move_strom.py *)

\* normalize_number: None for None and for text float() rejects
strom_normalize_number(s) ==
    IF s = None THEN None
    ELSE LET r == CHOOSE f \in {float(c) : c \in
                      {replace(replace(s, "'", <<>>), " ", <<>>)}} : TRUE
         IN  IF r = ValueError THEN None ELSE r

\* [0-9']+[.,]\d{2} matches the whole of t
IsAmountText(t) ==
    /\ Len(t) >= 4
    /\ t[Len(t)] \in Digits
    /\ t[Len(t) - 1] \in Digits
    /\ t[Len(t) - 2] \in {".", ","}
    /\ AllIn(SubSeq(t, 1, Len(t) - 3), Digits \cup {"'"})

\* [0-9]{1,2}[.,]\d{1,2} matches the whole of t
IsPercentText(t) ==
    \E a \in 1 .. 2 : \E b \in 1 .. 2 :
        /\ Len(t) = a + 1 + b
        /\ AllIn(SubSeq(t, 1, a), Digits)
        /\ t[a + 1] \in {".", ","}
        /\ AllIn(SubSeq(t, a + 2, Len(t)), Digits)

\* pat.search(line) of parse_mwst_rate_from_table on a stripped line: the
\* pattern ends at the end of the line and its three numbers are separated
\* by whitespace, so the line's last word is the third number, the word
\* before it the percentage, and the word before that ends with the first
\* number. The result is group 2, or None.
MwstPercentOfLine(line) ==
    LET w == Words(line)
        n == Len(w)
    IN  IF /\ n >= 3
           /\ IsAmountText(w[n])
           /\ IsPercentText(w[n - 1])
           /\ \E i \in 1 .. Len(w[n - 2]) :
                  IsAmountText(SubSeq(w[n - 2], i, Len(w[n - 2])))
        THEN w[n - 1]
        ELSE None

\* 5.0 <= val <= 15.0
InVatWindow(val) ==
    /\ 5 * Pow10(val[3]) <= val[2]
    /\ val[2] <= 15 * Pow10(val[3])

\* float(group 2) with the comma replaced, None without a match, for a
\* percentage float() rejects or one outside the window
MwstRateOfPercent(satz) ==
    LET val == float(replace(satz, ",", <<".">>))
    IN  IF satz = None THEN None
        ELSE IF val = ValueError THEN None
        ELSE IF InVatWindow(val) THEN val
        ELSE None

\* the rate a line contributes: None for an empty line, a line without a
\* percentage, a percentage float() rejects or one outside the window
MwstRateOfLine(raw) ==
    IF strip(raw) = <<>> THEN None
    ELSE CHOOSE r \in {MwstRateOfPercent(satz) :
                          satz \in {MwstPercentOfLine(strip(raw))}} : TRUE

\* a scan that gives up at the first line that carries a percentage
RECURSIVE MwstScanFirstOnly(_)
MwstScanFirstOnly(lines) ==
    IF lines = <<>> THEN None
    ELSE IF MwstPercentOfLine(strip(Head(lines))) # None
    THEN MwstRateOfLine(Head(lines))
    ELSE MwstScanFirstOnly(Tail(lines))

parse_mwst_rate_first_only(energy_net_section) ==
    IF energy_net_section = <<>> THEN None
    ELSE MwstScanFirstOnly(splitlines(energy_net_section))

\* the loop over the lines: the first line that contributes a percentage
RECURSIVE MwstScan(_)
MwstScan(lines) ==
    IF lines = <<>> THEN None
    ELSE IF MwstRateOfLine(Head(lines)) # None
    THEN MwstRateOfLine(Head(lines))
    ELSE MwstScan(Tail(lines))

\* parse_mwst_rate_from_table
parse_mwst_rate_from_table(energy_net_section) ==
    IF energy_net_section = <<>> THEN None
    ELSE MwstScan(splitlines(energy_net_section))

\* ---- parse_object_page ----

\* text.find(k, from): the first index i >= from at which k stands in t,
\* 0 when there is none (indices count from 1)
FindFrom(t, k, from) ==
    LET hits == {i \in from .. (Len(t) - Len(k) + 1) :
                    SubSeq(t, i, i + Len(k) - 1) = k}
    IN  IF hits = {} THEN 0 ELSE Min(hits)

\* every index at which k stands in t
Occurrences(t, k) ==
    {i \in 1 .. (Len(t) - Len(k) + 1) : SubSeq(t, i, i + Len(k) - 1) = k}

\* the length of the longest run of characters outside C in t from index i
RunAtNot(t, i, C) ==
    IF i > Len(t) THEN 0
    ELSE Min({n \in 0 .. (Len(t) - i + 1) :
                 i + n > Len(t) \/ t[i + n] \in C})

\* Objekt:\s*(.+) tried at an occurrence p of 'Objekt:': the whitespace
\* after the label is skipped as far as a character other than a line break
\* follows it, and group 1 runs from there to the end of that line
ObjektAt(t, p) ==
    LET i0   == p + 7
        ws   == RunAt(t, i0, Whitespace)
        from == {i \in i0 .. (i0 + ws) : i <= Len(t) /\ t[i] # "\n"}
    IN  IF from = {} THEN None
        ELSE SubSeq(t, Max(from), Max(from) + RunAtNot(t, Max(from), {"\n"}) - 1)

\* extract_first(text, r"Objekt:\s*(.+)")
ObjektOf(t) ==
    LET ok == {p \in Occurrences(t, <<"O", "b", "j", "e", "k", "t", ":">>) :
                  ObjektAt(t, p) # None}
    IN  IF ok = {} THEN None ELSE ObjektAt(t, Min(ok))

\* \s+(\S+) read n times from index i: the n words, each after at least one
\* whitespace character, followed by the index after the last word; the
\* empty tuple when a word is missing
RECURSIVE WordsAt(_, _, _)
WordsAt(t, i, n) ==
    IF n = 0 THEN <<i>>
    ELSE LET ws == RunAt(t, i, Whitespace)
             wl == RunAtNot(t, i + ws, Whitespace)
             r  == WordsAt(t, i + ws + wl, n - 1)
         IN  IF ws = 0 \/ wl = 0 THEN <<>>
             ELSE IF r = <<>> THEN <<>>
             ELSE <<SubSeq(t, i + ws, i + ws + wl - 1)>> \o r

KWH == <<"k", "W", "h">>

\* \s+(\S+)\s*kWh at index i: the last group is the whole word when kWh
\* follows it after any whitespace, else its longest proper beginning that
\* kWh follows directly; None when there is neither
LastWordBeforeKwh(t, i) ==
    LET ws   == RunAt(t, i, Whitespace)
        s    == i + ws
        wl   == RunAtNot(t, s, Whitespace)
        ws2  == RunAt(t, s + wl, Whitespace)
        cuts == {m \in 1 .. (wl - 1) : LitAt(t, s + m, KWH)}
    IN  IF ws = 0 \/ wl = 0 THEN None
        ELSE IF LitAt(t, s + wl + ws2, KWH)
        THEN SubSeq(t, s, s + wl - 1)
        ELSE IF cuts # {} THEN SubSeq(t, s, s + Max(cuts) - 1)
        ELSE None

\* the groups of a reading row from the n - 1 words w read after the label
\* (w ends with the index after them): the words and the last group before
\* kWh, or None
ReadingRowFrom(t, n, w) ==
    IF w = <<>> THEN None
    ELSE IF LastWordBeforeKwh(t, w[n]) = None THEN None
    ELSE SubSeq(w, 1, n - 1) \o <<LastWordBeforeKwh(t, w[n])>>

\* label(\s+(\S+)){n}\s*kWh tried at an occurrence p of the label: the n
\* groups, or None
ReadingRowAt(t, label, n, p) ==
    CHOOSE r \in {ReadingRowFrom(t, n, w) :
                     w \in {WordsAt(t, p + Len(label), n - 1)}} : TRUE

\* re.search of a reading row: the match at the first occurrence of the
\* label that has one
ReadingRow(t, label, n) ==
    LET ok == {p \in Occurrences(t, label) :
                  ReadingRowAt(t, label, n, p) # None}
    IN  IF ok = {} THEN None ELSE ReadingRowAt(t, label, n, Min(ok))

\* label\s+[\d']+\s*kWh\s+([0-9]+\.\d+) tried at an occurrence p of the
\* label: group 1, or None
RateAt(t, label, p) ==
    LET i0 == p + Len(label)
        w1 == RunAt(t, i0, Whitespace)
        q  == RunAt(t, i0 + w1, Digits \cup {"'"})
        w2 == RunAt(t, i0 + w1 + q, Whitespace)
        k  == i0 + w1 + q + w2
        w3 == RunAt(t, k + 3, Whitespace)
        g  == k + 3 + w3
        d1 == RunAt(t, g, Digits)
        d2 == RunAt(t, g + d1 + 1, Digits)
    IN  IF /\ w1 >= 1
           /\ q >= 1
           /\ LitAt(t, k, KWH)
           /\ w3 >= 1
           /\ d1 >= 1
           /\ g + d1 <= Len(t)
           /\ t[g + d1] = "."
           /\ d2 >= 1
        THEN SubSeq(t, g, g + d1 + d2)
        ELSE None

\* the rate of a cost or levy row: normalize_number of group 1 of the first
\* match, None without a match
RateOf(t, label) ==
    LET ok == {p \in Occurrences(t, label) : RateAt(t, label, p) # None}
    IN  IF ok = {} THEN None
        ELSE CHOOSE r \in {strom_normalize_number(g) :
                              g \in {RateAt(t, label, Min(ok))}} : TRUE

\* [0-9']+\.\d+ tried at index i of l: the index of the last character of
\* the match, 0 without a match
DecimalEndAt(l, i) ==
    LET q == RunAt(l, i, Digits \cup {"'"})
        d == RunAt(l, i + q + 1, Digits)
    IN  IF q >= 1 /\ i + q <= Len(l) /\ l[i + q] = "." /\ d >= 1
        THEN i + q + d
        ELSE 0

\* re.findall(r"[0-9']+\.\d+", l) from index i on
RECURSIVE DecimalsFrom(_, _)
DecimalsFrom(l, i) ==
    IF i > Len(l) THEN <<>>
    ELSE IF DecimalEndAt(l, i) # 0
    THEN <<SubSeq(l, i, DecimalEndAt(l, i))>>
             \o DecimalsFrom(l, DecimalEndAt(l, i) + 1)
    ELSE DecimalsFrom(l, i + 1)

\* Total Objekt\s+([0-9']+\.\d{2}) tried at an occurrence p of the label
TotalAt(t, p) ==
    LET i0 == p + 12
        w  == RunAt(t, i0, Whitespace)
        q  == RunAt(t, i0 + w, Digits \cup {"'"})
        e  == i0 + w + q
    IN  IF /\ w >= 1
           /\ q >= 1
           /\ e + 2 <= Len(t)
           /\ t[e] = "."
           /\ t[e + 1] \in Digits
           /\ t[e + 2] \in Digits
        THEN SubSeq(t, i0 + w, e + 2)
        ELSE None

\* the first 'Total Objekt' amount of the page, None without one
TotalOf(t) ==
    LET ok == {p \in Occurrences(t, <<"T", "o", "t", "a", "l", " ", "O",
        "b", "j", "e", "k", "t">>) : TotalAt(t, p) # None}
    IN  IF ok = {} THEN None
        ELSE CHOOSE r \in {strom_normalize_number(g) :
                              g \in {TotalAt(t, Min(ok))}} : TRUE

\* text[from:to] for find results: to = 0 stands for the -1 of a failed
\* find, which cuts the last character
SliceToFound(t, from, to) ==
    IF to = 0 THEN SubSeq(t, from, Len(t) - 1) ELSE SubSeq(t, from, to - 1)

\* text[from:to if to != -1 else None]
SliceToFoundOrEnd(t, from, to) ==
    IF to = 0 THEN SubSeq(t, from, Len(t)) ELSE SubSeq(t, from, to - 1)

\* a high tariff reading whose consumption is the difference of the readings
HtReadings_derived(bezug_section) ==
    LET m_ht == ReadingRow(bezug_section, <<"H", "o", "c", "h", "t", "a",
        "r", "i", "f", " ", "E", "n", "e", "r", "g", "i", "e">>, 6)
    IN  IF m_ht = None
        THEN [zeitraum_von |-> None, zeitraum_bis |-> None,
              ht_stand_alt |-> None, ht_stand_neu |-> None,
              ht_bezug |-> None]
        ELSE [zeitraum_von |-> strom_normalize_date_ddmmyy(m_ht[1]),
              zeitraum_bis |-> strom_normalize_date_ddmmyy(m_ht[2]),
              ht_stand_alt |-> strom_normalize_number(m_ht[4]),
              ht_stand_neu |-> strom_normalize_number(m_ht[5]),
              ht_bezug     |-> FAdd(strom_normalize_number(m_ht[5]),
                                    FNeg(strom_normalize_number(m_ht[4])))]

\* a high tariff reading that takes the period from the low tariff row when
\* the high tariff row has no match
HtReadings_nt_period(bezug_section) ==
    LET m_ht == ReadingRow(bezug_section, <<"H", "o", "c", "h", "t", "a",
        "r", "i", "f", " ", "E", "n", "e", "r", "g", "i", "e">>, 6)
        m_nt == ReadingRow(bezug_section, <<"N", "i", "e", "d", "e", "r",
            "t", "a", "r", "i", "f", " ", "E", "n", "e", "r", "g", "i",
            "e">>, 5)
    IN  IF m_ht = None
        THEN [zeitraum_von |-> IF m_nt = None THEN None
                               ELSE strom_normalize_date_ddmmyy(m_nt[1]),
              zeitraum_bis |-> IF m_nt = None THEN None
                               ELSE strom_normalize_date_ddmmyy(m_nt[2]),
              ht_stand_alt |-> None, ht_stand_neu |-> None,
              ht_bezug |-> None]
        ELSE [zeitraum_von |-> strom_normalize_date_ddmmyy(m_ht[1]),
              zeitraum_bis |-> strom_normalize_date_ddmmyy(m_ht[2]),
              ht_stand_alt |-> strom_normalize_number(m_ht[4]),
              ht_stand_neu |-> strom_normalize_number(m_ht[5]),
              ht_bezug     |-> strom_normalize_number(m_ht[6])]

\* what is kept of the match m_ht of the high tariff row
HtFields(m_ht) ==
    IF m_ht = None
    THEN [zeitraum_von |-> None, zeitraum_bis |-> None,
          ht_stand_alt |-> None, ht_stand_neu |-> None,
          ht_bezug |-> None]
    ELSE [zeitraum_von |-> strom_normalize_date_ddmmyy(m_ht[1]),
          zeitraum_bis |-> strom_normalize_date_ddmmyy(m_ht[2]),
          ht_stand_alt |-> strom_normalize_number(m_ht[4]),
          ht_stand_neu |-> strom_normalize_number(m_ht[5]),
          ht_bezug     |-> strom_normalize_number(m_ht[6])]

\* the reading of the high tariff row: period and meter readings, all None
\* without a match (lines 127-145)
HtReadings(bezug_section) ==
    CHOOSE r \in {HtFields(m_ht) : m_ht \in
        {ReadingRow(bezug_section, <<"H", "o", "c", "h", "t", "a", "r", "i",
             "f", " ", "E", "n", "e", "r", "g", "i", "e">>, 6)}} : TRUE

\* what is kept of the match m_nt of the low tariff row
NtFields(m_nt) ==
    IF m_nt = None
    THEN [nt_stand_alt |-> None, nt_stand_neu |-> None, nt_bezug |-> None]
    ELSE [nt_stand_alt |-> strom_normalize_number(m_nt[3]),
          nt_stand_neu |-> strom_normalize_number(m_nt[4]),
          nt_bezug     |-> strom_normalize_number(m_nt[5])]

\* the reading of the low tariff row (lines 131-155)
NtReadings(bezug_section) ==
    CHOOSE r \in {NtFields(m_nt) : m_nt \in
        {ReadingRow(bezug_section, <<"N", "i", "e", "d", "e", "r", "t", "a",
             "r", "i", "f", " ", "E", "n", "e", "r", "g", "i", "e">>,
             5)}} : TRUE

\* the line from 'Grundpreis pro Messstelle' on, None without one
GrundpreisLine(energy_net_section) ==
    LET p == FindFrom(energy_net_section, <<"G", "r", "u", "n", "d", "p",
        "r", "e", "i", "s", " ", "p", "r", "o", " ", "M", "e", "s", "s",
        "s", "t", "e", "l", "l", "e">>, 1)
    IN  IF p = 0 THEN None
        ELSE SubSeq(energy_net_section, p,
                    p + RunAtNot(energy_net_section, p, {"\n"}) - 1)

\* a meter fee that counts as billed as soon as the line has a second number
Grundpreis_any_amount(energy_net_section) ==
    LET line == GrundpreisLine(energy_net_section)
        nums == DecimalsFrom(line, 1)
    IN  IF line = None \/ nums = <<>>
        THEN [ansatz |-> None, verrechnet |-> FALSE]
        ELSE [ansatz |-> strom_normalize_number(nums[1]),
              verrechnet |-> Len(nums) >= 2]

\* the meter fee from the numbers of its line: the first is the rate, the
\* fee is billed when the second is a positive amount
GrundpreisOf(nums) ==
    IF nums = <<>> THEN [ansatz |-> None, verrechnet |-> FALSE]
    ELSE [ansatz |-> strom_normalize_number(nums[1]),
          verrechnet |->
              /\ Len(nums) >= 2
              /\ strom_normalize_number(nums[2]) # None
              /\ strom_normalize_number(nums[2])[2] > 0]

\* the meter fee of the line, nothing without a line
GrundpreisFrom(line) ==
    IF line = None THEN [ansatz |-> None, verrechnet |-> FALSE]
    ELSE CHOOSE r \in {GrundpreisOf(nums) :
                          nums \in {DecimalsFrom(line, 1)}} : TRUE

\* the meter fee: rate and billed flag (lines 188-208)
Grundpreis(energy_net_section) ==
    CHOOSE r \in {GrundpreisFrom(line) :
                     line \in {GrundpreisLine(energy_net_section)}} : TRUE

\* x or ""
OrEmptyText(x) == IF x = None THEN <<>> ELSE x

\* next_idx: the heading 'Bezug Ansatz' at next_1, else 'Betragsermittlung'
\* after the readings heading
NextIdxOr(page, bezug_idx, next_1) ==
    IF next_1 = 0
    THEN FindFrom(page, <<"B", "e", "t", "r", "a", "g", "s", "e", "r", "m",
             "i", "t", "t", "l", "u", "n", "g">>, bezug_idx)
    ELSE next_1

\* the three sections of the page cut at the headings found (0: not found)
SectionsAt(page, bezug_idx, betrag_idx, abgaben_idx) ==
    [bezug_idx   |-> bezug_idx,
     abgaben_idx |-> abgaben_idx,
     bezug_section |->
         IF bezug_idx = 0 THEN <<>>
         ELSE SliceToFound(page, bezug_idx,
                  NextIdxOr(page, bezug_idx,
                      FindFrom(page, <<"B", "e", "z", "u", "g", " ", "A",
                          "n", "s", "a", "t", "z">>, bezug_idx))),
     energy_net_section |->
         IF betrag_idx = 0 THEN <<>>
         ELSE SliceToFoundOrEnd(page, betrag_idx,
                  FindFrom(page, <<"A", "b", "g", "a", "b", "e", "n">>,
                           betrag_idx)),
     abgaben_section |->
         IF abgaben_idx = 0 THEN <<>>
         ELSE SliceToFoundOrEnd(page, abgaben_idx,
                  FindFrom(page, <<"T", "o", "t", "a", "l", " ", "O", "b",
                      "j", "e", "k", "t">>, abgaben_idx))]

\* bezug_section, energy_net_section and abgaben_section of the page
PageSections(page) ==
    CHOOSE s \in
        {SectionsAt(page, bezug_idx, betrag_idx, abgaben_idx) :
            bezug_idx \in {FindFrom(page, <<"B", "e", "z", "u", "g", "s",
                "e", "r", "m", "i", "t", "t", "l", "u", "n", "g">>, 1)},
            betrag_idx \in {FindFrom(page, <<"B", "e", "t", "r", "a", "g",
                "s", "e", "r", "m", "i", "t", "t", "l", "u", "n", "g">>, 1)},
            abgaben_idx \in {FindFrom(page, <<"A", "b", "g", "a", "b", "e",
                "n">>, 1)}} : TRUE

\* parse_abgabe: the rate of a levy row, None without a levy section
parse_abgabe(s, label) ==
    IF s.abgaben_idx = 0 THEN None ELSE RateOf(s.abgaben_section, label)

\* the row put together from the parts of the page
ObjectRow(page, rechnungsnummer, filename, objekt, s, ht, nt, gp) ==
    [Rechnungsnummer |-> rechnungsnummer,
     Objekt          |-> objekt,
     Zeitraum_von    |-> OrEmptyText(ht.zeitraum_von),
     Zeitraum_bis    |-> OrEmptyText(ht.zeitraum_bis),
     MWST_Satz_prozent |-> parse_mwst_rate_from_table(s.energy_net_section),
     Grundpreis_Messstelle_Ansatz_CHF |-> gp.ansatz,
     Grundpreis_verrechnet            |-> gp.verrechnet,
     Systemdienstleistungen_Ansatz_CHF |->
         parse_abgabe(s, <<"S", "y", "s", "t", "e", "m", "d", "i", "e", "n",
             "s", "t", "l", "e", "i", "s", "t", "u", "n", "g", "e", "n">>),
     KEV_Ansatz_CHF |->
         parse_abgabe(s, <<"K", "o", "s", "t", "e", "n", "d", "e", "c", "k",
             "e", "n", "d", "e", " ", "E", "i", "n", "s", "p", "e", "i", "s",
             "e", "v", "e", "r", "g", "U+00FC", "t", "u", "n", "g">>),
     Abgabe_Gemeinde_Ansatz_CHF |->
         parse_abgabe(s, <<"A", "b", "g", "a", "b", "e", " ", "a", "n", " ",
             "d", "i", "e", " ", "G", "e", "m", "e", "i", "n", "d", "e">>),
     Stromreserve_Ansatz_CHF |->
         parse_abgabe(s, <<"S", "t", "r", "o", "m", "r", "e", "s", "e", "r",
             "v", "e">>),
     HT_Stand_alt_kWh |-> ht.ht_stand_alt,
     HT_Stand_neu_kWh |-> ht.ht_stand_neu,
     HT_Bezug_kWh     |-> ht.ht_bezug,
     HT_Energie_Ansatz_CHF_kWh |->
         RateOf(s.energy_net_section, <<"H", "o", "c", "h", "t", "a", "r",
             "i", "f", " ", "E", "n", "e", "r", "g", "i", "e">>),
     HT_Netznutzung_Ansatz_CHF_kWh |->
         RateOf(s.energy_net_section, <<"H", "o", "c", "h", "t", "a", "r",
             "i", "f", " ", "N", "e", "t", "z", "n", "u", "t", "z", "u", "n",
             "g">>),
     NT_Stand_alt_kWh |-> nt.nt_stand_alt,
     NT_Stand_neu_kWh |-> nt.nt_stand_neu,
     NT_Bezug_kWh     |-> nt.nt_bezug,
     NT_Energie_Ansatz_CHF_kWh |->
         RateOf(s.energy_net_section, <<"N", "i", "e", "d", "e", "r", "t",
             "a", "r", "i", "f", " ", "E", "n", "e", "r", "g", "i", "e">>),
     NT_Netznutzung_Ansatz_CHF_kWh |->
         RateOf(s.energy_net_section, <<"N", "i", "e", "d", "e", "r", "t",
             "a", "r", "i", "f", " ", "N", "e", "t", "z", "n", "u", "t", "z",
             "u", "n", "g">>),
     Total_Objekt_CHF |-> TotalOf(page),
     Datei |-> filename]

\* the row of a page with the object name objekt and the sections s
ObjectPage(page, rechnungsnummer, filename, objekt, s) ==
    IF objekt = None THEN None
    ELSE IF s.bezug_idx = 0 THEN None
    ELSE CHOOSE r \in {ObjectRow(page, rechnungsnummer, filename, objekt,
                                  s, ht, nt, gp) :
                          ht \in {HtReadings(s.bezug_section)},
                          nt \in {NtReadings(s.bezug_section)},
                          gp \in {Grundpreis(s.energy_net_section)}} : TRUE

\* parse_object_page: the row of one object page, None when the page names
\* no object or has no readings section
parse_object_page(page, rechnungsnummer, filename) ==
    CHOOSE r \in {ObjectPage(page, rechnungsnummer, filename, objekt, s) :
                     objekt \in {ObjektOf(page)},
                     s \in {PageSections(page)}} : TRUE

\* str(x) of a float in positional notation (1e-4 <= |x| < 1e16), as
\* csv.DictWriter writes it
FloatStr(x) ==
    LET a    == IF x[2] < 0 THEN 0 - x[2] ELSE x[2]
        int_ == str(a \div Pow10(x[3]))
        frac == str(Pow10(x[3]) + (a % Pow10(x[3])))
    IN  (IF x[2] < 0 THEN <<"-">> ELSE <<>>)
        \o int_ \o <<".">>
        \o (IF x[3] = 0 THEN <<"0">> ELSE Tail(frac))

\* a number cell written by csv.DictWriter and read back by pd.read_csv: an
\* empty cell (None) comes back as the float nan, a number as itself, which
\* num() then takes through str()
ReadBackNumber(v) == IF v = None THEN FNaN ELSE FloatStr(v)

\* a text cell: the empty text comes back as nan
ReadBackText(v) == IF v = <<>> THEN FNaN ELSE v

\* the row of parse_object_page as strom_table_verify.py receives it
ReadBack(row) ==
    [f \in DOMAIN row \cup {"NT_Bezug_KWh"} |->
        IF f = "NT_Bezug_KWh" THEN None
        ELSE IF f = "Grundpreis_verrechnet"
        THEN (IF row[f] THEN <<"T", "r", "u", "e">>
                        ELSE <<"F", "a", "l", "s", "e">>)
        ELSE IF f \in {"Rechnungsnummer", "Objekt", "Zeitraum_von",
                       "Zeitraum_bis", "Datei"}
        THEN ReadBackText(row[f])
        ELSE ReadBackNumber(row[f])]

\* ---- inputs of the scanner ----

MaxSectionLines == 3

\* lines of a cost section with the percentage they print (None: no trailing
\* triple of numbers). The percentages lie inside the window, on its two
\* limits, and outside on either side.
MwstLineKinds ==
    {[line |-> <<"E", "n", "e", "r", "g", "i", "e", " ", "2", "5", ".", "0",
        "0", " ", "8", ".", "1", "0", " ", "2", "7", ".", "0",
        "3">>,   pct |-> Float(81, 1)],
     [line |-> <<"N", "e", "t", "z", " ", "1", "'", "0", "1", "0", ".", "0",
         "0", " ", "7", ",", "7", " ", "1", "'", "0", "8", "7", ".", "7",
         "7">>, pct |-> Float(77, 1)],
     [line |-> <<" ", "A", "b", "g", "a", "b", "e", " ", "2", ".", "0", "0",
         " ", "5", ".", "0", " ", "2", ".", "1", "0",
         " ">>,     pct |-> Float(5, 0)],
     [line |-> <<"A", "b", "g", "a", "b", "e", " ", "2", ".", "0", "0", " ",
         "1", "5", ".", "0", "0", " ", "2", ".", "3",
         "0">>,     pct |-> Float(15, 0)],
     [line |-> <<"A", "b", "g", "a", "b", "e", " ", "2", ".", "0", "0", " ",
         "4", ".", "9", "9", " ", "2", ".", "1",
         "0">>,      pct |-> Float(499, 2)],
     [line |-> <<"A", "b", "g", "a", "b", "e", " ", "2", ".", "0", "0", " ",
         "1", "5", ".", "0", "1", " ", "2", ".", "3",
         "0">>,     pct |-> Float(1501, 2)],
     [line |-> <<"R", "a", "b", "a", "t", "t", " ", "1", "0", ".", "0", "0",
         " ", "2", ".", "5", "0", " ", "1", "0", ".", "2",
         "5">>,    pct |-> Float(25, 1)],
     [line |-> <<"M", "i", "e", "t", "e", " ", "1", "0", ".", "0", "0", " ",
         "2", "0", ".", "0", "0", " ", "1", "2", ".", "0",
         "0">>,    pct |-> Float(20, 0)],
     [line |-> <<"T", "o", "t", "a", "l", " ", "2", "7", ".", "0",
         "3">>,                pct |-> None],
     [line |-> <<>>,                           pct |-> None]}

\* the section printed from its rows, one line each
SectionText(rows) ==
    Concat([i \in DOMAIN rows |-> rows[i].line \o <<"\n">>])

\* high tariff rows of the readings section: period, meter, old reading,
\* new reading, consumption, unit. accepted: the row ends with the unit;
\* the second row prints readings that do not add up to its consumption.
HtRowKinds ==
    {[line |-> <<"H", "o", "c", "h", "t", "a", "r", "i", "f", " ", "E", "n",
        "e", "r", "g", "i", "e", " ", "0", "1", ".", "0", "7", ".", "2",
        "5", " ", "0", "1", ".", "1", "0", ".", "2", "5", " ", "4", "7",
        "1", "1", " ", "1", "'", "0", "0", "0", " ", "1", "'", "1", "0",
        "0", " ", "1", "0", "0", " ", "k", "W", "h", "\n">>,
      accepted |-> TRUE, alt |-> Float(1000, 0), neu |-> Float(1100, 0),
      bezug |-> Float(100, 0)],
     [line |-> <<"H", "o", "c", "h", "t", "a", "r", "i", "f", " ", "E", "n",
         "e", "r", "g", "i", "e", " ", "0", "1", ".", "0", "7", ".", "2",
         "5", " ", "0", "1", ".", "1", "0", ".", "2", "5", " ", "4", "7",
         "1", "1", " ", "1", "0", "0", " ", "2", "5", "0", " ", "1", "0",
         "0", " ", "k", "W", "h", "\n">>,
      accepted |-> TRUE, alt |-> Float(100, 0), neu |-> Float(250, 0),
      bezug |-> Float(100, 0)],
     [line |-> <<"H", "o", "c", "h", "t", "a", "r", "i", "f", " ", "E", "n",
         "e", "r", "g", "i", "e", " ", "0", "1", ".", "0", "7", ".", "2",
         "5", " ", "0", "1", ".", "1", "0", ".", "2", "5", " ", "4", "7",
         "1", "1", " ", "1", "'", "0", "0", "0", " ", "1", "'", "1", "0",
         "0", " ", "1", "0", "0", "\n">>,
      accepted |-> FALSE, alt |-> None, neu |-> None, bezug |-> None],
     [line |-> <<>>,
      accepted |-> FALSE, alt |-> None, neu |-> None, bezug |-> None]}

\* low tariff rows: period, old reading, new reading, consumption, unit
NtRowKinds ==
    {[line |-> <<"N", "i", "e", "d", "e", "r", "t", "a", "r", "i", "f", " ",
        "E", "n", "e", "r", "g", "i", "e", " ", "0", "1", ".", "0", "7",
        ".", "2", "5", " ", "0", "1", ".", "1", "0", ".", "2", "5", " ",
        "2", "8", "'", "3", "6", "3", " ", "2", "8", "'", "4", "1", "3",
        " ", "5", "0", " ", "k", "W", "h", "\n">>,
      present |-> TRUE, alt |-> Float(28363, 0), neu |-> Float(28413, 0),
      bezug |-> Float(50, 0)],
     [line |-> <<"N", "i", "e", "d", "e", "r", "t", "a", "r", "i", "f", " ",
         "E", "n", "e", "r", "g", "i", "e", " ", "0", "1", ".", "0", "7",
         ".", "2", "5", " ", "0", "1", ".", "1", "0", ".", "2", "5", " ",
         "5", "0", "0", " ", "7", "0", "0", " ", "5", "0", " ", "k", "W",
         "h", "\n">>,
      present |-> TRUE, alt |-> Float(500, 0), neu |-> Float(700, 0),
      bezug |-> Float(50, 0)],
     [line |-> <<>>,
      present |-> FALSE, alt |-> None, neu |-> None, bezug |-> None]}

\* meter fee lines: number of meters, rate, months, amount without VAT, VAT
\* percentage, amount with VAT. rate and amount are what the line prints
\* (None: not printed).
GpLineKinds ==
    {[line |-> <<"G", "r", "u", "n", "d", "p", "r", "e", "i", "s", " ", "p",
        "r", "o", " ", "M", "e", "s", "s", "s", "t", "e", "l", "l", "e",
        " ", "1", " ", "1", "0", ".", "0", "0", "0", "0", " ", "3", " ",
        "M", "t", ".", " ", "3", "0", ".", "0", "0", " ", "8", ".", "1",
        "0", " ", "3", "2", ".", "4", "3", "\n">>,
      rate |-> Float(10, 0), amount |-> Float(30, 0)],
     [line |-> <<"G", "r", "u", "n", "d", "p", "r", "e", "i", "s", " ", "p",
         "r", "o", " ", "M", "e", "s", "s", "s", "t", "e", "l", "l", "e",
         " ", "1", " ", "1", "0", ".", "0", "0", "0", "0", " ", "3", " ",
         "M", "t", ".", "\n">>,
      rate |-> Float(10, 0), amount |-> None],
     [line |-> <<"G", "r", "u", "n", "d", "p", "r", "e", "i", "s", " ", "p",
         "r", "o", " ", "M", "e", "s", "s", "s", "t", "e", "l", "l", "e",
         " ", "1", " ", "1", "0", ".", "0", "0", "0", "0", " ", "3", " ",
         "M", "t", ".", " ", "0", ".", "0", "0", " ", "8", ".", "1", "0",
         " ", "0", ".", "0", "0", "\n">>,
      rate |-> Float(10, 0), amount |-> Float(0, 0)],
     [line |-> <<"G", "r", "u", "n", "d", "p", "r", "e", "i", "s", " ", "p",
         "r", "o", " ", "M", "e", "s", "s", "s", "t", "e", "l", "l", "e",
         " ", "1", " ", "5", ".", "5", "0", " ", "3", " ", "M", "t", ".",
         " ", "0", ".", "0", "5", "\n">>,
      rate |-> Float(55, 1), amount |-> Float(5, 2)],
     [line |-> <<"G", "r", "u", "n", "d", "p", "r", "e", "i", "s", " ", "p",
         "r", "o", " ", "M", "e", "s", "s", "s", "t", "e", "l", "l", "e",
         "\n">>,
      rate |-> None, amount |-> None],
     [line |-> <<>>,
      rate |-> None, amount |-> None]}

ObjektLines == {<<"O", "b", "j", "e", "k", "t", ":", " ", "H", "a", "u",
    "s", " ", "A", "\n">>, <<>>}

BezugHeads == {<<"B", "e", "z", "u", "g", "s", "e", "r", "m", "i", "t", "t",
    "l", "u", "n", "g", "\n">>, <<>>}

\* the page printed from its parts
PageText(p) ==
    p.objekt \o p.head \o p.ht.line \o p.nt.line
    \o <<"B", "e", "t", "r", "a", "g", "s", "e", "r", "m", "i", "t", "t",
        "l", "u", "n", "g", "\n", "B", "e", "z", "u", "g", " ", "A", "n",
        "s", "a", "t", "z", "\n">>
    \o <<"H", "o", "c", "h", "t", "a", "r", "i", "f", " ", "E", "n", "e",
        "r", "g", "i", "e", " ", "1", "0", "0", " ", "k", "W", "h", " ",
        "0", ".", "2", "5", " ", "2", "5", ".", "0", "0", " ", "8", ".",
        "1", "0", " ", "2", "7", ".", "0", "3", "\n">>
    \o <<"N", "i", "e", "d", "e", "r", "t", "a", "r", "i", "f", " ", "E",
        "n", "e", "r", "g", "i", "e", " ", "5", "0", " ", "k", "W", "h",
        " ", "0", ".", "1", "2", "5", " ", "6", ".", "2", "5", " ", "8",
        ".", "1", "0", " ", "6", ".", "7", "6", "\n">>
    \o <<"H", "o", "c", "h", "t", "a", "r", "i", "f", " ", "N", "e", "t",
        "z", "n", "u", "t", "z", "u", "n", "g", " ", "1", "0", "0", " ",
        "k", "W", "h", " ", "0", ".", "1", " ", "1", "0", ".", "0", "0",
        " ", "8", ".", "1", "0", " ", "1", "0", ".", "8", "1", "\n">>
    \o <<"N", "i", "e", "d", "e", "r", "t", "a", "r", "i", "f", " ", "N",
        "e", "t", "z", "n", "u", "t", "z", "u", "n", "g", " ", "5", "0",
        " ", "k", "W", "h", " ", "0", ".", "0", "5", " ", "2", ".", "5",
        "0", " ", "8", ".", "1", "0", " ", "2", ".", "7", "0", "\n">>
    \o p.gp.line
    \o <<"A", "b", "g", "a", "b", "e", "n", "\n">>
    \o <<"S", "y", "s", "t", "e", "m", "d", "i", "e", "n", "s", "t", "l",
        "e", "i", "s", "t", "u", "n", "g", "e", "n", " ", "1", "5", "0",
        " ", "k", "W", "h", " ", "0", ".", "0", "0", "5", " ", "0", ".",
        "7", "5", " ", "8", ".", "1", "0", " ", "0", ".", "8", "1", "\n">>
    \o <<"K", "o", "s", "t", "e", "n", "d", "e", "c", "k", "e", "n", "d",
        "e", " ", "E", "i", "n", "s", "p", "e", "i", "s", "e", "v", "e",
        "r", "g", "U+00FC", "t", "u", "n", "g", " ", "1", "5", "0", " ",
        "k", "W", "h", " ", "0", ".", "0", "2", "3", " ", "3", ".", "4",
        "5", " ", "8", ".", "1", "0", " ", "3", ".", "7", "3", "\n">>
    \o <<"S", "t", "r", "o", "m", "r", "e", "s", "e", "r", "v", "e", " ",
        "1", "5", "0", " ", "k", "W", "h", " ", "0", ".", "0", "0", "1",
        "2", " ", "0", ".", "1", "8", " ", "8", ".", "1", "0", " ", "0",
        ".", "1", "9", "\n">>
    \o <<"T", "o", "t", "a", "l", " ", "O", "b", "j", "e", "k", "t", " ",
        "8", "4", ".", "4", "6", "\n">>

Pages ==
    [objekt : ObjektLines, head : BezugHeads, ht : HtRowKinds,
     nt : NtRowKinds, gp : GpLineKinds]

InitStrom ==
    /\ call = "-"
    /\ ret = None
    /\ SortIdle
    /\ \/ /\ pc = "mwst"
          /\ \E rows \in StringsUpTo(MwstLineKinds, MaxSectionLines) :
                 arg = [rows |-> rows, section |-> SectionText(rows)]
       \/ /\ pc = "page"
          /\ \E p \in Pages : arg = [page |-> p, text |-> PageText(p)]

Call_parse_mwst_rate_from_table ==
    /\ pc = "mwst"
    /\ call' = "parse_mwst_rate_from_table"
    /\ ret' = parse_mwst_rate_from_table(arg.section)
    /\ pc' = "returned"
    /\ UNCHANGED <<arg, sortVars>>

\* process_stromrechnungen hands the page to parse_object_page
Call_parse_object_page ==
    /\ pc = "page"
    /\ call' = "parse_object_page"
    /\ ret' = parse_object_page(arg.text, <<"2", "0", "2", "5", "0", "0",
        "1">>, <<"a", ".", "p", "d", "f">>)
    /\ pc' = "parsed"
    /\ UNCHANGED <<arg, sortVars>>

\* the row, written to strom.csv, is recomputed by strom_table_verify.py;
\* a page without row writes nothing
Call_verify_row ==
    /\ pc = "parsed"
    /\ DOMAIN ret # {1}
    /\ call' = "recompute_row"
    /\ arg' = [page |-> arg.page, text |-> arg.text, row |-> ret]
    /\ ret' = recompute_row(ReadBack(ret))
    /\ pc' = "verified"
    /\ UNCHANGED sortVars

NextStrom ==
    \/ Call_parse_mwst_rate_from_table
    \/ Call_parse_object_page
    \/ Call_verify_row

SpecStrom == InitStrom /\ [][NextStrom]_vars

-----------------------------------------------------------------------------
(* Claims on the electricity invoice scanner *)

\* the rows of the section whose percentage lies within 5 .. 15
RowsInWindow ==
    {i \in DOMAIN arg.rows :
        /\ arg.rows[i].pct # None
        /\ \E p \in {arg.rows[i].pct} :
              5 * Pow10(p[3]) <= p[2] /\ p[2] <= 15 * Pow10(p[3])}

\* C24: parse_mwst_rate_from_table scans the rows of the cost section in
\* order and returns the percentage of the first row whose trailing triple
\* '<excl> <percent> <incl>' has a percentage within 5 .. 15, both limits
\* included; a percentage outside the window is discarded, not clamped, and
\* the scan goes on; the result is None when no row qualifies.
C24_FirstPercentInWindow ==
    (pc = "returned" /\ call = "parse_mwst_rate_from_table") =>
        ret = IF RowsInWindow = {} THEN None
              ELSE arg.rows[Min(RowsInWindow)].pct

\* a section whose first row prints 20.00 and whose second prints 7,7: the
\* first is passed over and the result is 7.7
C24_Witness ==
    /\ pc = "returned"
    /\ call = "parse_mwst_rate_from_table"
    /\ Len(arg.rows) >= 2
    /\ arg.rows[1].pct = Float(20, 0)
    /\ arg.rows[2].pct = Float(77, 1)
    /\ ret = Float(77, 1)

\* rows outside the window alone give None, never a limit of the window
C24_OutsideWindowGivesNone ==
    (pc = "returned" /\ call = "parse_mwst_rate_from_table"
        /\ arg.rows # <<>> /\ RowsInWindow = {}) => ret = None

\* parse_object_page has returned a row
RowParsed == pc = "parsed" /\ DOMAIN ret # {1}

\* C25: the meter fee counts as billed exactly when the line 'Grundpreis pro
\* Messstelle' carries, after the rate, a second amount that is greater than
\* zero. With the rate alone, or a second amount of 0, the rate is recorded
\* and the fee is not billed; without the line there is no rate and the fee
\* is not billed.
C25_BilledIffPositiveAmount ==
    RowParsed =>
        /\ ret.Grundpreis_verrechnet
              <=> /\ arg.page.gp.amount # None
                  /\ arg.page.gp.amount[2] > 0
        /\ ret.Grundpreis_Messstelle_Ansatz_CHF = arg.page.gp.rate

\* a line with the rate 10.0000 and the amount 0.00: rate recorded, not
\* billed
C25_Witness ==
    /\ RowParsed
    /\ arg.page.gp.rate = Float(10, 0)
    /\ arg.page.gp.amount = Float(0, 0)
    /\ ret.Grundpreis_Messstelle_Ansatz_CHF = Float(10, 0)
    /\ ~ret.Grundpreis_verrechnet

\* without a rate on the page the fee is never billed
C25_NoRateNotBilled ==
    (RowParsed /\ arg.page.gp.rate = None) =>
        /\ ret.Grundpreis_Messstelle_Ansatz_CHF = None
        /\ ~ret.Grundpreis_verrechnet

\* the row recompute_row has received, with other readings written into the
\* four reading columns
WithReadings(row, r) ==
    [row EXCEPT !.HT_Stand_alt_kWh = r[1], !.HT_Stand_neu_kWh = r[2],
                !.NT_Stand_alt_kWh = r[3], !.NT_Stand_neu_kWh = r[4]]

\* readings to write into a row: missing, zero, equal, rising and falling
OtherReadings ==
    {<<None, None, None, None>>,
     <<Float(0, 0), Float(0, 0), Float(0, 0), Float(0, 0)>>,
     <<Float(100, 0), Float(250, 0), Float(500, 0), Float(700, 0)>>,
     <<Float(1934, 0), Float(1000, 0), Float(7, 0), Float(7, 0)>>}

\* C26: the consumption of a row is the consumption the page prints in its
\* own column; it is not derived from the meter readings. The reconciliation
\* never reads the readings: rows that differ only in the old and new
\* readings give the same result.
C26_ConsumptionIsReportedColumn ==
    /\ RowParsed =>
          /\ ret.HT_Bezug_kWh = arg.page.ht.bezug
          /\ ret.NT_Bezug_kWh = arg.page.nt.bezug
          /\ ret.HT_Stand_alt_kWh = arg.page.ht.alt
          /\ ret.HT_Stand_neu_kWh = arg.page.ht.neu
          /\ ret.NT_Stand_alt_kWh = arg.page.nt.alt
          /\ ret.NT_Stand_neu_kWh = arg.page.nt.neu
    /\ pc = "verified" =>
          \A r \in OtherReadings :
              recompute_row(ReadBack(WithReadings(arg.row, r))) = ret

\* a page whose high tariff readings 100 and 250 do not add up to its
\* printed consumption of 100 has been parsed and recomputed
C26_Witness ==
    /\ pc = "verified"
    /\ arg.page.ht.alt = Float(100, 0)
    /\ arg.page.ht.neu = Float(250, 0)
    /\ arg.row.HT_Bezug_kWh = Float(100, 0)
    /\ arg.page.nt.present
    /\ ret.Exkl_Energie_CHF = Float(3125, 2)

\* pages that differ only in the readings they print give the same
\* reconciliation: the energy cost depends on the consumption alone
C26_ResultFromConsumption ==
    pc = "verified" =>
        ret.Exkl_Energie_CHF
          = round2(FAdd(FMul(num(ReadBackNumber(arg.page.ht.bezug)),
                             Float(25, 2)),
                        FMul(num(ReadBackNumber(arg.page.nt.bezug)),
                             Float(125, 3))))

\* C30: the billing period comes from an accepted high tariff row alone (a
\* row followed by the unit kWh). A page with a low tariff row but without
\* accepted high tariff row gives an empty period start and end although
\* the low tariff readings are recorded, so the reconciliation counts 0
\* months and a meter fee of 0 even when the fee is flagged as billed.
C30_PeriodFromHighTariffRowOnly ==
    /\ RowParsed =>
          /\ arg.page.ht.accepted =>
                /\ ret.Zeitraum_von = <<"0", "1", ".", "0", "7", ".", "2",
                    "0", "2", "5">>
                /\ ret.Zeitraum_bis = <<"0", "1", ".", "1", "0", ".", "2",
                    "0", "2", "5">>
          /\ ~arg.page.ht.accepted =>
                /\ ret.Zeitraum_von = <<>>
                /\ ret.Zeitraum_bis = <<>>
          /\ ret.NT_Stand_alt_kWh = arg.page.nt.alt
          /\ ret.NT_Stand_neu_kWh = arg.page.nt.neu
    /\ (pc = "verified" /\ ~arg.page.ht.accepted) =>
          /\ ret.Monate_Grundpreis = Float(0, 0)
          /\ ret.Exkl_Grundpreis_CHF = Float(0, 0)
    /\ (pc = "verified" /\ arg.page.ht.accepted) =>
          /\ ret.Monate_Grundpreis = Float(3, 0)
          /\ ret.Exkl_Grundpreis_CHF
                = IF arg.row.Grundpreis_verrechnet
                  THEN round2(FMul(arg.page.gp.rate, Float(3, 0)))
                  ELSE Float(0, 0)

\* a page with low tariff row, a high tariff row without unit and a billed
\* meter fee has been recomputed with 0 months
C30_Witness ==
    /\ pc = "verified"
    /\ arg.page.nt.present
    /\ ~arg.page.ht.accepted
    /\ arg.page.ht.line # <<>>
    /\ arg.row.NT_Stand_alt_kWh = Float(28363, 0)
    /\ arg.row.Grundpreis_verrechnet
    /\ arg.row.Zeitraum_von = <<>>
    /\ ret.Monate_Grundpreis = Float(0, 0)
    /\ ret.Exkl_Grundpreis_CHF = Float(0, 0)

-----------------------------------------------------------------------------
(* strom_table_verify.py main: the run over a CSV file *)

MaxCsvRows == 3

\* a row of the CSV with its Objekt column
WithObjekt(row, name) ==
    [f \in DOMAIN row \cup {"Objekt"} |->
        IF f = "Objekt" THEN name ELSE row[f]]

\* rows of a CSV: one that reconciles, one whose invoice total is off, one
\* of another object with unreadable cells, and one whose meter fee rate
\* reads as infinite
CsvRows ==
    {WithObjekt(BaseRow, <<"H", "a", "u", "s", " ", "A">>),
     WithObjekt([BaseRow EXCEPT !.Total_Objekt_CHF = <<"7", "0", ".", "0",
         "0">>], <<"H", "a", "u", "s", " ", "A">>),
     WithObjekt(DamagedRow(DamagedTogether, FNaN), <<"H", "a", "u", "s",
         " ", "B">>),
     WithObjekt([BaseRow EXCEPT
                    !.Grundpreis_Messstelle_Ansatz_CHF = <<"i", "n", "f">>,
                    !.Grundpreis_verrechnet = <<"F", "a", "l", "s",
                        "e">>], <<"H", "a", "u", "s", " ", "B">>)}

\* --filter: absent (None) or a text
Filters == {None, <<"h", "a", "u", "s", " ", "a">>, <<"B">>}

\* --limit: 0 stands for an absent --limit, which is as falsy as 0
Limits == 0 .. (MaxCsvRows - 1)

\* df[df["Objekt"].fillna("").str.lower().str.contains(f)], for a filter
\* text without pattern characters
FilterRows(df, filter) ==
    IF filter = None THEN df
    ELSE SelectSeq(df, LAMBDA r : IsSubstring(lower(filter), lower(r.Objekt)))

\* print_console_block draws a bar for seven of the amounts with
\* int(round(abs(v) * scale)), which raises for an amount that is nan or
\* infinite
Printable(res) ==
    \A f \in {"Exkl_Energie_CHF", "Exkl_Netznutzung_CHF", "Exkl_Abgaben_CHF",
              "Exkl_Grundpreis_CHF", "MWST_Betrag_CHF",
              "Recalc_Total_Inkl_CHF", "Total_Objekt_CHF"} :
        IsFinite(res[f])

\* pd.concat([df, pd.DataFrame(results)], axis=1): row i of the output is
\* row i of the input next to result i, and next to empty cells (None) when
\* there is no result i
ConcatFrames(df, results) ==
    [i \in 1 .. Len(df) |->
        [src |-> df[i],
         res |-> IF i <= Len(results) THEN results[i] ELSE None]]

\* int(df_out["OK"].sum()): the rows whose OK cell is True; 0 when there is
\* no OK column because there are no results
CountOk(results) ==
    Cardinality({i \in DOMAIN results : results[i].OK})

InitMain ==
    /\ pc = "main"
    /\ call = "-"
    /\ ret = None
    /\ SortIdle
    /\ \E csv \in StringsUpTo(CsvRows, MaxCsvRows) :
       \E filter \in Filters :
       \E limit \in Limits :
           arg = [csv |-> csv, filter |-> filter, limit |-> limit]

\* read_csv and the filter
Main_read ==
    /\ pc = "main"
    /\ call' = "main"
    /\ ret' = [df |-> FilterRows(arg.csv, arg.filter), results |-> <<>>,
               shown |-> 0, df_out |-> <<>>, n |-> 0, n_ok |-> 0]
    /\ pc' = IF FilterRows(arg.csv, arg.filter) = <<>> THEN "write"
             ELSE "loop"
    /\ UNCHANGED <<arg, sortVars>>

\* one pass of the loop: recompute, append, print, count, and leave the loop
\* at the limit or after the last row
Main_row ==
    /\ pc = "loop"
    /\ LET i   == Len(ret.results) + 1
           res == recompute_row(ret.df[i])
       IN  IF ~Printable(res)
           THEN /\ ret' = [ret EXCEPT !.results = Append(@, res)]
                /\ pc' = "crashed"
           ELSE /\ ret' = [ret EXCEPT !.results = Append(@, res),
                                      !.shown = @ + 1]
                /\ pc' = IF arg.limit # 0 /\ ret.shown + 1 >= arg.limit
                         THEN "write"
                         ELSE IF i = Len(ret.df) THEN "write"
                         ELSE "loop"
    /\ UNCHANGED <<call, arg, sortVars>>

\* the *_verified.csv and the summary
Main_write ==
    /\ pc = "write"
    /\ ret' = [ret EXCEPT !.df_out = ConcatFrames(ret.df, ret.results),
                          !.n = Len(ret.df),
                          !.n_ok = CountOk(ret.results)]
    /\ pc' = "done"
    /\ UNCHANGED <<call, arg, sortVars>>

NextMain ==
    \/ Main_read
    \/ Main_row
    \/ Main_write

SpecMain == InitMain /\ [][NextMain]_vars

\* the rows main works on
InputRows == FilterRows(arg.csv, arg.filter)

\* C27: main recomputes every row in input order, a row that is not OK
\* never stops the rows after it, the *_verified.csv carries the recomputed
\* columns for all rows, also when --limit restricts the display, and the
\* summary counts the OK rows over all rows.
C27_EveryRowRecomputed ==
    pc = "done" =>
        /\ Len(ret.df_out) = Len(InputRows)
        /\ \A i \in DOMAIN ret.df_out :
              /\ ret.df_out[i].src = InputRows[i]
              /\ DOMAIN ret.df_out[i].res # {1}
              /\ ret.df_out[i].res = recompute_row(InputRows[i])
        /\ ret.n = Len(InputRows)
        /\ ret.n_ok = Cardinality({i \in DOMAIN InputRows :
                                      recompute_row(InputRows[i]).OK})

\* without --limit every row whose result can be printed is recomputed in
\* input order, whether the rows before it are OK or not
C27_WithoutLimit ==
    (pc = "done" /\ arg.limit = 0) =>
        /\ Len(ret.df_out) = Len(InputRows)
        /\ \A i \in DOMAIN ret.df_out :
              /\ ret.df_out[i].src = InputRows[i]
              /\ ret.df_out[i].res = recompute_row(InputRows[i])
        /\ ret.n = Len(InputRows)
        /\ ret.n_ok = Cardinality({i \in DOMAIN InputRows :
                                      recompute_row(InputRows[i]).OK})

\* with --limit N the rows after the N-th have no recomputed columns and
\* are not counted
C27_LimitCutsRecomputation ==
    (pc = "done" /\ arg.limit # 0) =>
        /\ \A i \in DOMAIN ret.df_out :
              i > arg.limit => DOMAIN ret.df_out[i].res = {1}
        /\ ret.n_ok = Cardinality({i \in DOMAIN InputRows :
                                      /\ i <= arg.limit
                                      /\ recompute_row(InputRows[i]).OK})

\* a row whose amounts are not finite ends the run at its print: no file
\* and no summary, for this row and every row after it
C27_UnprintableRowEndsRun ==
    /\ pc = "crashed" =>
          /\ ret.df_out = <<>>
          /\ ~Printable(ret.results[Len(ret.results)])
    /\ pc = "done" => \A i \in DOMAIN ret.results : Printable(ret.results[i])

-----------------------------------------------------------------------------
(* The CSV builders, build/build_swisscard_csv.py and build/build_szkb_csv.py *)

MaxFolder == 2

\* f"{float(amount):.2f}" for an amount of at most two decimals
Fixed2(x) ==
    LET c == Cents(x)
        a == IF c < 0 THEN 0 - c ELSE c
    IN  (IF c < 0 THEN <<"-">> ELSE <<>>)
        \o str(a \div 100) \o <<".">> \o fmt02d(a % 100)

\* provider.csv_header
csv_header(provider) ==
    IF provider = "Swisscard"
    THEN << <<"R", "e", "c", "h", "n", "u", "n", "g", "s", "d", "a", "t",
               "u", "m">>,
            <<"B", "e", "t", "r", "a", "g">>,
            <<"D", "a", "t", "e", "i">> >>
    ELSE << <<"V", "o", "n", "_", "D", "a", "t", "u", "m">>,
            <<"B", "i", "s", "_", "D", "a", "t", "u", "m">>,
            <<"S", "c", "h", "l", "u", "s", "s", "s", "a", "l", "d", "o">>,
            <<"D", "a", "t", "e", "i">> >>

\* the row main writes for the text of a matched PDF
SwisscardCsvRow(data) ==
    <<OrEmpty(data.date),
      IF data.amount = None THEN <<>> ELSE Fixed2(data.amount),
      data.file>>

SzkbCsvRow(data) ==
    <<OrEmpty(data.from_date), OrEmpty(data.to_date),
      IF data.saldo = None THEN <<>> ELSE Fixed2(data.saldo),
      data.file>>

BuilderRow(provider, t, name) ==
    IF provider = "Swisscard"
    THEN SwisscardCsvRow(Swisscard_parse_invoice(t, name))
    ELSE SzkbCsvRow(SZKB_parse_invoice(t, name))

\* csv_path.open in append mode: the file keeps what it holds
open_a(old) == IF old = None THEN <<>> ELSE old

\* csv_path.open("w"): the file is created or cut to nothing
open_w(old) == <<>>

\* the paths in the order in which glob yields them
sorted_as_listed(paths) == paths

\* sorted(paths) for paths of one folder: by name, as Python compares
\* strings
RECURSIVE sorted(_)
sorted(paths) ==
    IF paths = <<>> THEN <<>>
    ELSE LET m == CHOOSE i \in DOMAIN paths :
                      \A j \in DOMAIN paths :
                          ~StrLess(paths[j].name, paths[i].name)
         IN  <<paths[m]>>
             \o sorted([k \in 1 .. (Len(paths) - 1) |->
                           IF k < m THEN paths[k] ELSE paths[k + 1]])

\* ---- inputs of the builders ----

\* names of PDFs; as strings, "10.pdf" lies between "1.pdf" and "2.pdf"
PdfNames ==
    { <<"1", ".", "p", "d", "f">>,
      <<"1", "0", ".", "p", "d", "f">>,
      <<"2", ".", "p", "d", "f">> }

\* what a PDF of the folder may be: a file pdfplumber cannot open (None), a
\* document of the provider with and without a date and an amount, a
\* document of another provider
PdfContents(provider) ==
    IF provider = "Swisscard"
    THEN { None,
           Bundle(Swisscard_REQUIRED_KEYWORDS)
               \o <<"R", "e", "c", "h", "n", "u", "n", "g", "s", "d", "a",
                    "t", "u", "m", " ", "2", "4", ".", "1", "0", ".", "2",
                    "0", "2", "5", "\n", "M", "i", "n", "d", "e", "s", "t",
                    "z", "a", "h", "l", "u", "n", "g", "\n">>
               \o ChfList(<< <<"1", "0", ".", "0", "0">>,
                             <<"1", "0", ".", "0", "0">>,
                             <<"5", ".", "5", "0">>,
                             <<"1", "'", "2", "3", "4", ".", "5", "0">>,
                             <<"5", "0", ".", "0", "0">> >>),
           Bundle(Swisscard_REQUIRED_KEYWORDS),
           Bundle(SZKB_REQUIRED_KEYWORDS) }
    ELSE { None,
           Bundle(SZKB_REQUIRED_KEYWORDS)
               \o <<"0", "1", ".", "0", "1", ".", "2", "0", "2", "5", " ",
                    "3", "1", ".", "0", "1", ".", "2", "0", "2", "5", "\n",
                    "S", "c", "h", "l", "u", "s", "s", "s", "a", "l", "d",
                    "o", " ", "-", "2", "0", ".", "5", "0">>,
           Bundle(SZKB_REQUIRED_KEYWORDS),
           Bundle(Swisscom_REQUIRED_KEYWORDS) }

\* the folder as glob lists it: PDFs of different names, in any order
Listings(provider) ==
    {l \in StringsUpTo([name : PdfNames, content : PdfContents(provider)],
                       MaxFolder) :
        \A i, j \in DOMAIN l : i # j => l[i].name # l[j].name}

\* the CSV before the run: absent (None), or the file of an earlier state
\* of the folder
OldCsvs(provider) ==
    { None,
      <<csv_header(provider),
        BuilderRow(provider, Bundle(REQUIRED_KEYWORDS(provider)),
                   <<"0", ".", "p", "d", "f">>)>> }

InitBuild ==
    /\ pc = "build"
    /\ call = "-"
    /\ SortIdle
    /\ \E provider \in {"Swisscard", "SZKB_Privatkonto"} :
       \E listing \in Listings(provider) :
       \E old \in OldCsvs(provider) :
           /\ arg = [provider |-> provider, listing |-> listing]
           /\ ret = [csv |-> old, pdf_files |-> <<>>, written |-> 0,
                     skipped_not_matching |-> 0, errors |-> 0,
                     runs |-> 0, before |-> None]

\* main up to the loop: the sorted list of PDFs, the CSV opened for writing
\* and its header.  The folder exists: settings.py creates it on import.
Build_open ==
    /\ pc = "build"
    /\ call' = "main"
    /\ ret' = [csv |-> Append(open_w(ret.csv), csv_header(arg.provider)),
               pdf_files |-> sorted(arg.listing),
               written |-> 0, skipped_not_matching |-> 0, errors |-> 0,
               runs |-> ret.runs, before |-> ret.csv]
    /\ pc' = "files"
    /\ UNCHANGED <<arg, sortVars>>

\* one pass of the loop over pdf_files
Build_pdf ==
    /\ pc = "files"
    /\ ret.written + ret.skipped_not_matching + ret.errors
           < Len(ret.pdf_files)
    /\ LET pdf == ret.pdf_files[ret.written + ret.skipped_not_matching
                                    + ret.errors + 1]
       IN  IF pdf.content = None
           THEN ret' = [ret EXCEPT !.errors = @ + 1]
           ELSE IF ~matches(arg.provider, pdf.content)
           THEN ret' = [ret EXCEPT !.skipped_not_matching = @ + 1]
           ELSE ret' = [ret EXCEPT
                           !.csv = Append(@, BuilderRow(arg.provider,
                                              pdf.content, pdf.name)),
                           !.written = @ + 1]
    /\ UNCHANGED <<pc, call, arg, sortVars>>

\* the end of the loop: the file is closed and the summary printed
Build_summary ==
    /\ pc = "files"
    /\ ret.written + ret.skipped_not_matching + ret.errors
           = Len(ret.pdf_files)
    /\ ret' = [ret EXCEPT !.runs = @ + 1]
    /\ pc' = "built"
    /\ UNCHANGED <<call, arg, sortVars>>

\* the builder is run once more on the same folder
Build_again ==
    /\ pc = "built"
    /\ ret.runs < 2
    /\ pc' = "build"
    /\ UNCHANGED <<call, arg, ret, sortVars>>

NextBuild ==
    \/ Build_open
    \/ Build_pdf
    \/ Build_summary
    \/ Build_again

SpecBuild == InitBuild /\ [][NextBuild]_vars

\* the PDFs of the folder by rising name
InNameOrder(listing) ==
    [k \in DOMAIN listing |->
        listing[CHOOSE i \in DOMAIN listing :
                   Cardinality({j \in DOMAIN listing :
                       StrLess(listing[j].name, listing[i].name)}) = k - 1]]

\* a PDF that can be read and that the provider matches
ReadableAndMatched(pdf) ==
    pdf.content # None /\ matches(arg.provider, pdf.content)

\* the header followed by one row per readable and matched PDF of the
\* folder, by rising name
RebuiltCsv ==
    LET kept == SelectSeq(InNameOrder(arg.listing), ReadableAndMatched)
    IN  <<csv_header(arg.provider)>>
        \o [k \in DOMAIN kept |->
               BuilderRow(arg.provider, kept[k].content, kept[k].name)]

\* how many PDFs of the folder satisfy P
CountPdfs(P(_)) == Cardinality({i \in DOMAIN arg.listing : P(arg.listing[i])})

\* C28: a run of a builder leaves a CSV that holds the header and exactly
\* one row per readable and matched PDF of the folder in the order of the file
\* names, whatever the CSV held before; while the run is under way the file
\* holds the header and the rows written so far and nothing older; each PDF
\* is counted once, as written, as not matching or as an error; a second
\* run on the unchanged folder leaves the same CSV as the first.
C28_BuilderRebuildsFromScratch ==
    /\ pc = "files" =>
          /\ Len(ret.csv) = 1 + ret.written
          /\ ret.csv = SubSeq(RebuiltCsv, 1, Len(ret.csv))
    /\ pc = "built" =>
          /\ ret.csv = RebuiltCsv
          /\ ret.written = CountPdfs(ReadableAndMatched)
          /\ ret.errors = CountPdfs(LAMBDA pdf : pdf.content = None)
          /\ ret.skipped_not_matching
                 = CountPdfs(LAMBDA pdf : /\ pdf.content # None
                                          /\ ~matches(arg.provider,
                                                      pdf.content))
          /\ ret.written + ret.skipped_not_matching + ret.errors
                 = Len(arg.listing)
          /\ ret.runs = 2 => ret.csv = ret.before

\* a second run has ended on a folder that glob lists out of order, with a
\* PDF that was written and one that was not
C28_Witness ==
    /\ pc = "built"
    /\ ret.runs = 2
    /\ ret.pdf_files # arg.listing
    /\ ret.written = 1
    /\ Len(arg.listing) = 2
    /\ Len(ret.before) = 2

\* C28: the first run on a folder whose CSV holds a row of a PDF that is no
\* longer there leaves a CSV without that row.
C28_StaleRowsDropped ==
    (pc = "built" /\ ret.runs = 1 /\ ret.before # None)
        => \A i \in DOMAIN ret.csv : ret.csv[i] # ret.before[2]

-----------------------------------------------------------------------------
(* The Swisscom scanner, scan_move_swisscom.py main *)

MaxInbox == 2

MaxRuns == 2

\* SWISSCOM_KEYWORDS of scan_move_swisscom.py
SWISSCOM_KEYWORDS ==
    << <<"S", "w", "i", "s", "s", "c", "o", "m", " ", "(", "S", "c", "h",
        "w", "e", "i", "z", ")", " ", "A", "G">>,
       <<"R", "e", "c", "h", "n", "u", "n", "g", "s", "t", "o", "t", "a",
           "l", " ", "i", "n", " ", "C", "H", "F", " ", "i", "n", "k", "l",
           ".", " ", "M", "W", "S", "T">>,
       <<"R", "e", "c", "h", "n", "u", "n", "g", "s", "b", "e", "t", "r",
           "a", "g", " ", "i", "n", "k", "l", ".", " ", "M", "W", "S",
           "T">> >>

\* is_swisscom_invoice
is_swisscom_invoice(t) ==
    \E i \in DOMAIN SWISSCOM_KEYWORDS :
        IsSubstring(upper(SWISSCOM_KEYWORDS[i]), upper(t))

\* the header main writes into a new CSV
SwisscomCsvHeader ==
    << <<"R", "e", "c", "h", "n", "u", "n", "g", "s", "d", "a", "t", "u",
        "m">>, <<"B", "e", "t", "r", "a", "g", "_", "r", "o", "h">>, <<"B",
        "e", "t", "r", "a", "g", "_", "n", "u", "m">>, <<"D", "a", "t", "e",
        "i">> >>

\* the row main writes for a recognised PDF with an amount
SwisscomRow(t, fname) ==
    <<OrEmpty(find_datum(t)), find_amount(t),
      NumOrEmpty(normalize_amount_for_number(find_amount(t))), fname>>

\* main moves the PDF and writes its row afterwards
move_then_row == <<"move", "row">>

\* what main does with a recognised PDF whose amount was found, in the
\* order of the statements: writer.writerow, then shutil.move
row_then_move == <<"row", "move">>

\* ---- inputs of the scanner ----

\* what a PDF of the inbox may be: a file pdfplumber cannot open (None), an
\* invoice with date and amount, an invoice with an amount and no date, a
\* document recognised by a keyword that carries no amount, a document of
\* another sender
InboxContents ==
    { None,
      <<"S", "w", "i", "s", "s", "c", "o", "m", " ", "(", "S", "c", "h",
          "w", "e", "i", "z", ")", " ", "A", "G", "\n", "D", "a", "t", "u",
          "m", " ", "6", ".", " ", "N", "o", "v", "e", "m", "b", "e", "r",
          " ", "2", "0", "2", "5", "\n", "R", "e", "c", "h", "n", "u", "n",
          "g", "s", "t", "o", "t", "a", "l", " ", "i", "n", " ", "C", "H",
          "F", " ", "i", "n", "k", "l", ".", " ", "M", "W", "S", "T", " ",
          "1", "1", ".", "7", "0">>,
      <<"R", "e", "c", "h", "n", "u", "n", "g", "s", "b", "e", "t", "r",
          "a", "g", " ", "i", "n", "k", "l", ".", " ", "M", "W", "S", "T",
          " ", "C", "H", "F", " ", "1", "'", "0", "2", "2", ".", "5", "0">>,
      <<"S", "w", "i", "s", "s", "c", "o", "m", " ", "(", "S", "c", "h",
          "w", "e", "i", "z", ")", " ", "A", "G", "\n", "D", "a", "t", "u",
          "m", " ", "6", ".", " ", "N", "o", "v", "e", "m", "b", "e", "r",
          " ", "2", "0", "2", "5", "\n", "R", "e", "c", "h", "n", "u", "n",
          "g", "s", "t", "o", "t", "a", "l", " ", "i", "n", " ", "C", "H",
          "F", " ", "i", "n", "k", "l", ".", " ", "M", "W", "S", "T">>,
      Bundle(SZKB_REQUIRED_KEYWORDS) }

\* the inbox: PDFs of different names
Inboxes ==
    UNION { [S -> InboxContents] :
              S \in {T \in SUBSET PdfNames : Cardinality(T) <= MaxInbox} }

\* the CSV before the first run: absent (None), empty, or the file of
\* earlier runs
SwisscomOldCsvs ==
    { None, <<>>,
      <<SwisscomCsvHeader,
        SwisscomRow(<<"R", "e", "c", "h", "n", "u", "n", "g", "s", "b", "e",
            "t", "r", "a", "g", " ", "i", "n", "k", "l", ".", " ", "M", "W",
            "S", "T", " ", "C", "H", "F", " ", "9", ".", "9", "0">>, <<"0",
            ".", "p", "d", "f">>)>> }

InitScan ==
    /\ pc = "scan"
    /\ call = "-"
    /\ SortIdle
    /\ \E content \in Inboxes :
       \E old \in SwisscomOldCsvs :
           /\ arg = [content |-> content, old |-> old]
           /\ ret = [inbox |-> DOMAIN content, swisscom_dir |-> {},
                     csv |-> old, csv_exists |-> FALSE, todo |-> {},
                     fname |-> None, steps |-> <<>>, runs |-> 0,
                     appended |-> {}, moved |-> {}, run_rows |-> {},
                     run_moved |-> {}]

\* main up to the loop: the CSV opened for appending, its header when the
\* file did not exist, the listing of the inbox
Scan_open ==
    /\ pc = "scan"
    /\ call' = "main"
    /\ ret' = [ret EXCEPT
                  !.csv_exists = (ret.csv # None),
                  !.csv = IF ret.csv = None THEN <<SwisscomCsvHeader>>
                          ELSE ret.csv,
                  !.todo = ret.inbox,
                  !.run_rows = {},
                  !.run_moved = {}]
    /\ pc' = "files"
    /\ UNCHANGED <<arg, sortVars>>

\* the next file of the listing, in whatever order os.listdir gives: read,
\* recognise, look for the amount
Scan_pdf ==
    /\ pc = "files"
    /\ \E fname \in ret.todo :
          LET t == arg.content[fname]
              skip == \/ t = None
                      \/ ~is_swisscom_invoice(t)
                      \/ find_amount(t) = None
          IN  /\ ret' = [ret EXCEPT
                            !.todo = @ \ {fname},
                            !.fname = IF skip THEN None ELSE fname,
                            !.steps = IF skip THEN <<>> ELSE row_then_move]
              /\ pc' = IF skip THEN "files" ELSE "found"
    /\ UNCHANGED <<call, arg, sortVars>>

\* writer.writerow
Scan_row ==
    /\ pc = "found"
    /\ Head(ret.steps) = "row"
    /\ ret' = [ret EXCEPT
                  !.csv = Append(@, SwisscomRow(arg.content[ret.fname],
                                                ret.fname)),
                  !.appended = @ \cup {ret.fname},
                  !.run_rows = @ \cup {ret.fname},
                  !.steps = Tail(@)]
    /\ pc' = IF Tail(ret.steps) = <<>> THEN "files" ELSE "found"
    /\ UNCHANGED <<call, arg, sortVars>>

\* shutil.move
Scan_move ==
    /\ pc = "found"
    /\ Head(ret.steps) = "move"
    /\ ret' = [ret EXCEPT
                  !.inbox = @ \ {ret.fname},
                  !.swisscom_dir = @ \cup {ret.fname},
                  !.moved = @ \cup {ret.fname},
                  !.run_moved = @ \cup {ret.fname},
                  !.steps = Tail(@)]
    /\ pc' = IF Tail(ret.steps) = <<>> THEN "files" ELSE "found"
    /\ UNCHANGED <<call, arg, sortVars>>

\* shutil.move raises; main prints the error and goes on
Scan_move_fails ==
    /\ pc = "found"
    /\ Head(ret.steps) = "move"
    /\ ret' = [ret EXCEPT !.steps = Tail(@)]
    /\ pc' = IF Tail(ret.steps) = <<>> THEN "files" ELSE "found"
    /\ UNCHANGED <<call, arg, sortVars>>

\* the end of the loop: csv_file.close()
Scan_close ==
    /\ pc = "files"
    /\ ret.todo = {}
    /\ ret' = [ret EXCEPT !.runs = @ + 1, !.fname = None]
    /\ pc' = "closed"
    /\ UNCHANGED <<call, arg, sortVars>>

\* the scanner is started again
Scan_again ==
    /\ pc = "closed"
    /\ ret.runs < MaxRuns
    /\ pc' = "scan"
    /\ UNCHANGED <<call, arg, ret, sortVars>>

NextScan ==
    \/ Scan_open
    \/ Scan_pdf
    \/ Scan_row
    \/ Scan_move
    \/ Scan_move_fails
    \/ Scan_close
    \/ Scan_again

SpecScan == InitScan /\ [][NextScan]_vars

\* the rows of the CSV that carry the file name
RowsOf(fname) ==
    IF ret.csv = None THEN {}
    ELSE {i \in DOMAIN ret.csv : ret.csv[i][4] = fname}

\* a PDF that is recognised and carries no amount
RecognisedWithoutAmount(fname) ==
    /\ arg.content[fname] # None
    /\ is_swisscom_invoice(arg.content[fname])
    /\ find_amount(arg.content[fname]) = None

\* the rows that are the header, told by the cell "Datei"
HeaderRows(csv) ==
    IF csv = None THEN {}
    ELSE {i \in DOMAIN csv : csv[i][4] = SwisscomCsvHeader[4]}

\* C29: at every moment of every run, a PDF the scanner has moved in this
\* run had its row appended in this run, and every PDF it ever moved has a
\* row in the CSV and is in the provider folder; a recognised PDF without an
\* amount has no row, was not moved and is in the inbox; and the CSV holds
\* one header when it did not exist before the first run, and the headers it
\* held before otherwise.
C29_RowBeforeMove ==
    /\ ret.run_moved \subseteq ret.run_rows
    /\ \A fname \in ret.moved :
          /\ RowsOf(fname) # {}
          /\ fname \in ret.swisscom_dir
          /\ fname \notin ret.inbox
    /\ \A fname \in DOMAIN arg.content :
          RecognisedWithoutAmount(fname) =>
              /\ RowsOf(fname) = {}
              /\ fname \notin ret.moved
              /\ fname \in ret.inbox
    /\ (pc # "scan" \/ ret.runs > 0) =>
          /\ ret.csv # None
          /\ Cardinality(HeaderRows(ret.csv))
                 = IF arg.old = None THEN 1
                   ELSE Cardinality(HeaderRows(arg.old))
          /\ arg.old # None =>
                 SubSeq(ret.csv, 1, Len(arg.old)) = arg.old

\* two runs have ended on an inbox without a CSV: one PDF was moved and has
\* its row, one recognised PDF without an amount is still in the inbox
C29_Witness ==
    /\ pc = "closed"
    /\ ret.runs = 2
    /\ arg.old = None
    /\ ret.moved # {}
    /\ \E fname \in ret.inbox : RecognisedWithoutAmount(fname)
    /\ Len(ret.csv) = 2

\* C29: a PDF whose move fails keeps its row and gets another one in the
\* next run.
C29_FailedMoveRowAgain ==
    (pc = "closed" /\ ret.runs = 2)
        => \A fname \in ret.appended \ ret.moved :
               Cardinality(RowsOf(fname)) = 2

=============================================================================
